---- MODULE Spec2Model ----
(***************************************************************************)
(* State-machine model of the WhatsApp terminal client: the vim-style      *)
(* ShortcutHandler (modes, key bindings), the ChatHandler, the             *)
(* MessageHandler (message loads, sends, the /p AI pipeline), the          *)
(* WhatsAppClient wrapper and the MatrixAnimation, together with the       *)
(* asynchronous calls they leave in flight (message loads, sends,          *)
(* completions, timers).                                                   *)
(*                                                                         *)
(* Every handler runs to completion (single-threaded event loop); a        *)
(* handler is a state transformer on the record of all program fields, so  *)
(* that handlers compose the way the event emitters chain them.            *)
(* The status bar text and the widgets' geometry are read back by no       *)
(* handler; they are not part of the state. ShortcutHandler's currentView  *)
(* field (written by _switchView, read only by log lines) is kept by the   *)
(* keystroke specification alone. Hiding a widget matters in one way: the  *)
(* widget library moves the focus away from a focused widget that is       *)
(* hidden, to a widget of its focus history.                               *)
(***************************************************************************)
EXTENDS Integers, Sequences, FiniteSets, TLC

(***************************************************************************)
(* Bounds of the model                                                     *)
(***************************************************************************)
NumChats == 2          \* chats the chat service knows
MaxInFlight == 2       \* asynchronous calls and timers pending at once
MaxHead == 3           \* arbitrary prefix of a fetched message list
MaxTs == 3             \* largest timestamp in a fetched message list
MaxExtra == 2          \* how far a fetched list may exceed the fetch limit
MaxSpaces == 3         \* spaces between two tokens of a command
MaxPipelines == 2      \* /p commands issued in one run
MaxClock == 2          \* the last millisecond the clock reaches
MaxLog == 4            \* entries the AI log file may hold
MaxRaw == 5            \* length of a raw response given to cleanResponse

NULL == "null"

\* chatList.selected when no item is selected (null in the source)
NoIndex == 0 - 1

\* the chat at an index of the chat list
ChatAt(i) == IF i = 0 THEN "c1" ELSE IF i = 1 THEN "c2" ELSE IF i = 2 THEN "c3" ELSE "c4"

Chats == {ChatAt(i) : i \in 0..(NumChats - 1)}

\* what client.getChats() resolves to
ServiceChats == [i \in 1..NumChats |-> ChatAt(i - 1)]

(***************************************************************************)
(* Text: a JavaScript string is a sequence of one-character strings        *)
(***************************************************************************)

SpaceChars == {" ", "\n"}

LowerLetters == {"a", "b", "h", "i", "p", "q", "w"}

UpperLetters == {"Q", "W"}

IsSpace(c) == c \in SpaceChars

IsLetter(c) == c \in LowerLetters \cup UpperLetters

SeqsUpTo(S, n) == UNION {[1..k -> S] : k \in 0..n}

\* what the input box may hold when enter ends the typing
TypedTexts == {<<>>, <<" ">>, <<" ", "p", " ">>, <<"/", "p">>}

\* what the input box may hold when escape ends the typing
CancelledTexts == {<<>>, <<" ", "p", " ">>}

RECURSIVE TrimStart(_)
TrimStart(s) ==
    IF s # <<>> /\ IsSpace(Head(s)) THEN TrimStart(Tail(s)) ELSE s

RECURSIVE TrimEnd(_)
TrimEnd(s) ==
    IF s # <<>> /\ IsSpace(s[Len(s)]) THEN TrimEnd(SubSeq(s, 1, Len(s) - 1)) ELSE s

\* String.prototype.trim
Trim(s) == TrimEnd(TrimStart(s))

\* String.prototype.startsWith
StartsWith(s, p) == Len(s) >= Len(p) /\ SubSeq(s, 1, Len(p)) = p

PromptPrefix == <<"/", "p">>

(***************************************************************************)
(* AIHandler.cleanResponse, one operator per replace() of the source       *)
(***************************************************************************)
\* response.replace(/<[^>]*>/g, '')
RECURSIVE RemoveTags(_)
RemoveTags(s) ==
    IF s = <<>> THEN <<>>
    ELSE IF Head(s) = "<" /\ \E j \in 2..Len(s) : s[j] = ">"
         THEN LET j == CHOOSE j \in 2..Len(s) :
                          s[j] = ">" /\ \A k \in 2..(j - 1) : s[k] # ">"
              IN  RemoveTags(SubSeq(s, j + 1, Len(s)))
         ELSE <<Head(s)>> \o RemoveTags(Tail(s))

\* length of the longest prefix of s made of characters of S
RECURSIVE RunLength(_, _)
RunLength(s, S) ==
    IF s # <<>> /\ Head(s) \in S THEN 1 + RunLength(Tail(s), S) ELSE 0

\* cleaned.replace(/^\/[a-z]+\s/i, '')
RemoveLeadingCommand(s) ==
    IF s # <<>> /\ Head(s) = "/"
    THEN LET n == RunLength(Tail(s), LowerLetters \cup UpperLetters)
         IN  IF n >= 1 /\ Len(s) >= n + 2 /\ IsSpace(s[n + 2])
             THEN SubSeq(s, n + 3, Len(s))
             ELSE s
    ELSE s

\* cleaned.replace(/\s:q$/i, '') and cleaned.replace(/\s:w$/i, '')
RemoveTrailingCommand(s, letters) ==
    IF Len(s) >= 3 /\ IsSpace(s[Len(s) - 2]) /\ s[Len(s) - 1] = ":"
       /\ s[Len(s)] \in letters
    THEN SubSeq(s, 1, Len(s) - 3)
    ELSE s

\* the backquote character (written "^": a string cannot hold a backquote)
BQ == "^"

Fence == <<BQ, BQ, BQ>>

\* cleaned.replace(/BQBQBQ[a-z]*\n|BQBQBQ/g, '')
RECURSIVE RemoveFences(_)
RemoveFences(s) ==
    IF s = <<>> THEN <<>>
    ELSE IF StartsWith(s, Fence)
         THEN LET rest == SubSeq(s, 4, Len(s))
                  n == RunLength(rest, LowerLetters)
              IN  IF Len(rest) > n /\ rest[n + 1] = "\n"
                  THEN RemoveFences(SubSeq(rest, n + 2, Len(rest)))
                  ELSE RemoveFences(rest)
         ELSE <<Head(s)>> \o RemoveFences(Tail(s))

\* positions j at which the closing delimiter d of a lazy d(.*?)d match may
\* start, for an opening delimiter at position 1 ('.' matches no newline)
ClosingAt(s, d) ==
    {j \in (Len(d) + 1)..(Len(s) - Len(d) + 1) :
        /\ SubSeq(s, j, j + Len(d) - 1) = d
        /\ \A k \in (Len(d) + 1)..(j - 1) : s[k] # "\n"}

Min(S) == CHOOSE x \in S : \A y \in S : x <= y

\* cleaned.replace(/d(.*?)d/g, '$1') for the delimiters **, * and __
RECURSIVE RemovePairs(_, _)
RemovePairs(s, d) ==
    IF s = <<>> THEN <<>>
    ELSE IF StartsWith(s, d) /\ ClosingAt(s, d) # {}
         THEN LET j == Min(ClosingAt(s, d))
              IN  SubSeq(s, Len(d) + 1, j - 1)
                    \o RemovePairs(SubSeq(s, j + Len(d), Len(s)), d)
         ELSE <<Head(s)>> \o RemovePairs(Tail(s), d)

cleanResponse(response) ==
    IF response = <<>> THEN <<>>
    ELSE LET c1 == RemoveTags(response)
             c2 == RemoveLeadingCommand(c1)
             c3 == RemoveTrailingCommand(c2, {"q", "Q"})
             c4 == RemoveTrailingCommand(c3, {"w", "W"})
             c5 == RemoveFences(c4)
             c6 == RemovePairs(c5, <<"*", "*">>)
             c7 == RemovePairs(c6, <<"*">>)
             c8 == RemovePairs(c7, <<"_", "_">>)
         IN  Trim(c8)

(***************************************************************************)
(* AIHandler.parseCommand                                                  *)
(***************************************************************************)
DQ == "\""

SQ == "'"

\* String.prototype.endsWith
EndsWith(s, p) == Len(s) >= Len(p) /\ SubSeq(s, Len(s) - Len(p) + 1, Len(s)) = p

\* first position of a space in str, 0 when it holds none
FirstSpace(str) ==
    IF \E i \in 1..Len(str) : str[i] = " "
    THEN CHOOSE i \in 1..Len(str) :
             str[i] = " " /\ \A j \in 1..(i - 1) : str[j] # " "
    ELSE 0

\* command.split(' '): two spaces in a row leave an empty string between them
RECURSIVE Split(_)
Split(str) ==
    LET i == FirstSpace(str)
    IN  IF i = 0 THEN <<str>>
        ELSE <<SubSeq(str, 1, i - 1)>> \o Split(SubSeq(str, i + 1, Len(str)))

\* this.model
DefaultModel == <<"l", "l", "a", "m", "a", "3", ".", "2">>

\* the options parseCommand starts from; promptSlug is <<>> for null, <<slug>>
\* once set
DefaultOptions ==
    [content |-> <<>>, context |-> <<>>, model |-> DefaultModel,
     promptSlug |-> <<>>]

\* the while loop that collects a quoted value: args[i] (1-based) was the last
\* one taken; the result is the index reached and the value collected
RECURSIVE CollectQuoted(_, _, _, _)
CollectQuoted(args, i, value, quote) ==
    IF i < Len(args) /\ ~EndsWith(value, <<quote>>)
    THEN CollectQuoted(args, i + 1, value \o <<" ">> \o args[i + 1], quote)
    ELSE [i |-> i, value |-> value]

\* value.slice(0, -1)
DropLast(value) == SubSeq(value, 1, Len(value) - 1)

\* the switch on currentFlag
SetOption(options, flag, value) ==
    CASE flag = <<"-", "c", "t">> -> [options EXCEPT !.content = value]
      [] flag = <<"-", "p">> -> [options EXCEPT !.promptSlug = <<value>>]
      [] flag = <<"-", "m">> -> [options EXCEPT !.model = value]
      [] OTHER -> options

\* the for loop of parseCommand from args[i] (1-based) on; currentFlag is <<>>
\* for null, <<flag>> once set
RECURSIVE ParseArgs(_, _, _, _)
ParseArgs(args, i, currentFlag, options) ==
    IF i > Len(args) THEN options
    ELSE LET arg == args[i]
         IN  IF StartsWith(arg, <<"-">>)
             THEN ParseArgs(args, i + 1, <<arg>>, options)
             ELSE IF currentFlag # <<>>
             THEN LET quoted == StartsWith(arg, <<DQ>>) \/ StartsWith(arg, <<SQ>>)
                      got == IF quoted
                             THEN CollectQuoted(args, i, Tail(arg), arg[1])
                             ELSE [i |-> i, value |-> arg]
                      value == IF quoted THEN DropLast(got.value) ELSE got.value
                  IN  ParseArgs(args, got.i + 1, <<>>,
                                SetOption(options, currentFlag[1], value))
             ELSE ParseArgs(args, i + 1, <<>>, options)

\* AIHandler.parseCommand: args[0] (the /p) is skipped
parseCommand(cmd) == ParseArgs(Split(cmd), 2, <<>>, DefaultOptions)

(***************************************************************************)
(* WhatsAppClient.getChatMessages: sort, slice, reverse                    *)
(***************************************************************************)
FETCH_LIMIT == 20

\* Array.prototype.sort is stable: m goes after every element that does not
\* sort after it under (a, b) => b.timestamp - a.timestamp
RECURSIVE InsertDesc(_, _)
InsertDesc(sorted, m) ==
    IF sorted = <<>> THEN <<m>>
    ELSE IF Head(sorted).timestamp >= m.timestamp
         THEN <<Head(sorted)>> \o InsertDesc(Tail(sorted), m)
         ELSE <<m>> \o sorted

RECURSIVE SortDesc(_)
SortDesc(s) ==
    IF s = <<>> THEN <<>>
    ELSE InsertDesc(SortDesc(SubSeq(s, 1, Len(s) - 1)), s[Len(s)])

Reverse(s) == [i \in 1..Len(s) |-> s[Len(s) + 1 - i]]

\* Array.prototype.slice(0, n)
Slice0(s, n) == SubSeq(s, 1, IF Len(s) < n THEN Len(s) ELSE n)

\* getChatMessages without its reverse()
getChatMessages_Unreversed(messages) == Slice0(SortDesc(messages), FETCH_LIMIT)

getChatMessages(messages) == Reverse(Slice0(SortDesc(messages), FETCH_LIMIT))

(***************************************************************************)
(* AILogger: the metrics, the AI log file and the interaction files.       *)
(* The file system is taken to work: no write fails.                       *)
(***************************************************************************)
\* the /p pipelines of a run, and the values of Date.now()
Pids == 1..MaxPipelines

Ids == 0..MaxClock

RECENT_LIMIT == 20

\* an interaction file that does not exist; owner and updates are history:
\* the pipeline whose logInteraction wrote the file, and the pipelines
\* whose send attempts set its messageStatus
NoFile ==
    [exists |-> FALSE, owner |-> 0, messageStatus |-> "null",
     feedback |-> <<>>, updates |-> <<>>]

\* the metrics of the constructor, an empty log file and no interaction file
InitLogger ==
    [files |-> [id \in Ids |-> NoFile], recent |-> <<>>, log |-> <<>>,
     totalRequests |-> 0, errors |-> 0, positive |-> 0, negative |-> 0,
     delivery |-> [total |-> 0, sent |-> 0, failed |-> 0]]

\* a line of the AI log file
LogEntry(type, id, flag) == [type |-> type, interactionId |-> id, flag |-> flag]

\* the id logInteraction makes: the date and Date.now(), both read from the
\* clock, so the millisecond alone tells two ids apart
InteractionId(clock) == clock

\* logInteraction with no interaction file and no entry written
logInteraction_Nothing(L, clock, owner) == L

\* AILogger.logInteraction, called by pipeline owner at time clock
logInteraction(L, clock, owner) ==
    LET interactionId == InteractionId(clock)
    IN  [L EXCEPT
            !.totalRequests = @ + 1,
            !.log = Append(@, LogEntry("interaction", interactionId, FALSE)),
            !.files[interactionId] =
                [exists |-> TRUE, owner |-> owner, messageStatus |-> "null",
                 feedback |-> <<>>, updates |-> <<>>],
            !.recent =
                Slice0(<<[interactionId |-> interactionId, messageSent |-> "null"]>>
                           \o @, RECENT_LIMIT)]

\* AILogger.logError
logError(L) ==
    [L EXCEPT !.errors = @ + 1, !.log = Append(@, LogEntry("error", 0, FALSE))]

\* AILogger.logFeedback
logFeedback(L, interactionId, positive) ==
    [L EXCEPT
        !.positive = IF positive THEN @ + 1 ELSE @,
        !.negative = IF positive THEN @ ELSE @ + 1,
        !.log = Append(@, LogEntry("feedback", interactionId, positive)),
        !.files[interactionId].feedback =
            IF L.files[interactionId].exists THEN <<positive>> ELSE @]

\* recentInteractions.findIndex: the first entry with the id, 0 for none
FindIndex(recent, interactionId) ==
    IF \E k \in DOMAIN recent : recent[k].interactionId = interactionId
    THEN Min({k \in DOMAIN recent : recent[k].interactionId = interactionId})
    ELSE 0

\* AILogger.updateInteractionStatus, called for the send attempt of pipeline by
AILogger_updateInteractionStatus(L, interactionId, messageSent, by) ==
    IF ~L.files[interactionId].exists THEN L
    ELSE LET status == IF messageSent THEN "sent" ELSE "failed"
             idx == FindIndex(L.recent, interactionId)
         IN  [L EXCEPT
                 !.files[interactionId].messageStatus = status,
                 !.files[interactionId].updates = Append(@, by),
                 !.delivery.total = @ + 1,
                 !.delivery.sent = IF messageSent THEN @ + 1 ELSE @,
                 !.delivery.failed = IF messageSent THEN @ ELSE @ + 1,
                 !.recent = [k \in DOMAIN @ |->
                                IF k = idx THEN [@[k] EXCEPT !.messageSent = status]
                                ELSE @[k]],
                 !.log = Append(@, LogEntry("status_update", interactionId,
                                            messageSent))]

(***************************************************************************)
(* AIHandler: prompts, processMessage, feedback and status                 *)
(***************************************************************************)
\* the slugs _loadPrompts found, in the order of listPrompts()
LoadedPrompts == <<<<"f">>, <<"c">>>>

\* getPromptBySlug finding a template for every slug
getPromptBySlug_Any(slug) == TRUE

\* AIHandler.getPromptBySlug: whether a template is found
getPromptBySlug(slug) == \E k \in DOMAIN LoadedPrompts : LoadedPrompts[k] = slug

\* if (promptSlug): null and '' are falsy; promptSlug is <<>> for null
HasSlug(promptSlug) == promptSlug # <<>> /\ promptSlug[1] # <<>>

\* the error processMessage throws for a slug without a template
TemplateNotFound(slug) ==
    [kind |-> "templateNotFound", slug |-> slug, available |-> LoadedPrompts]

\* the error of a completion that exits non-zero or cannot be parsed
CompletionFailed == [kind |-> "completion", slug |-> <<>>, available |-> <<>>]

NoChatSelected == [kind |-> "noChat", slug |-> <<>>, available |-> <<>>]

\* processMessage returning the interaction id with the response
processMessage_ReturnedWithId(response, interactionId) ==
    [response |-> response, interactionId |-> interactionId]

\* what processMessage returns: the response string alone, the interaction
\* id stays in its local variable
processMessage_Returned(response, interactionId) == [response |-> response]

\* response.interactionId in _handlePromptCommand: undefined (<<>>) for a
\* value without that property
InteractionIdOf(returned) ==
    IF "interactionId" \in DOMAIN returned THEN <<returned.interactionId>> ELSE <<>>

\* AIHandler.recordFeedback; interactionId is <<>> for null or undefined
recordFeedback(L, interactionId, positive) ==
    IF interactionId = <<>> THEN L
    ELSE logFeedback(L, interactionId[1], positive)

\* AIHandler.updateInteractionStatus
updateInteractionStatus(L, interactionId, messageSent, by) ==
    IF interactionId = <<>> THEN L
    ELSE AILogger_updateInteractionStatus(L, interactionId[1], messageSent, by)

(***************************************************************************)
(* State                                                                   *)
(***************************************************************************)
VARIABLES
    mode,              \* ShortcutHandler.mode
    focused,           \* screen.focused: "chatList", "messageBox", "inputBox", "none"
    reading,           \* inputBox is reading input (it grabs the keys)
    inputValue,        \* inputBox value
    submitListeners,   \* listeners of the input box 'submit' and 'cancel' events
    chatListSelected,  \* chatList.selected (0-based index)
    itemCount,         \* chatList.items.length
    clientPhase,       \* WhatsAppClient: "starting", "loadingChats", "ready", "failed"
    chats,             \* WhatsAppClient.chats
    clSelectedChat,    \* WhatsAppClient.selectedChat
    chSelectedChat,    \* ChatHandler.selectedChat
    currentMessages,   \* MessageHandler.currentMessages
    content,           \* messageBox content
    isActive,          \* MatrixAnimation.isActive
    interval,          \* MatrixAnimation.interval is set
    intervalTimers,    \* interval timers registered by setInterval, not cleared
    loads,             \* getChatMessages calls in flight: how many per [chat, via]
    timers,            \* pending setTimeout(() => this._refreshMessages())
    completions,       \* processMessage calls in flight: how many per issuing chat
    sends,             \* client.sendMessage calls in flight: how many per kind
    lastIssued,        \* history: chat of the most recent selection, NULL once cleared
    insertFrom,        \* history: mode in which INSERT was entered, NULL outside INSERT
    last,              \* history: what the most recent handler did
    fetched,           \* getChatMessages on its own: list the service returned
    loaded,            \* getChatMessages on its own: list it returned
    pipelines,         \* the AI pipeline: each /p command's progress
    aiLogger,          \* the AI pipeline: the AILogger singleton and its files
    lastInteractionId, \* the AI pipeline: MessageHandler.lastInteractionId
    now,               \* the AI pipeline: Date.now()
    finished,          \* history: the pipelines in the order they returned
    aiNotice,          \* the AI pipeline: what the message box was last told
    raw,               \* cleanResponse on its own: the response given
    cleanings,         \* what cleaning it once and twice returned
    typed,             \* parseCommand on its own: the command string
    parsed,            \* parseCommand on its own: the options it returned
    inCommandMode,     \* ShortcutHandler.inCommandMode
    commandBuffer,     \* ShortcutHandler.commandBuffer
    previousMode,      \* ShortcutHandler.previousMode
    currentView,       \* ShortcutHandler.currentView
    keypressListeners, \* screen 'keypress' listeners armed after setupShortcuts
    promptHandler,     \* PromptHandler.mode and the length of its prompts
    stroke,            \* history: what the most recent keystroke emitted
    teardown,          \* WhatsAppClient.destroy: "idle", "requested", "completed"
    exitCode           \* <<>> while the process runs, <<code>> once it exited

vars == <<mode, focused, reading, inputValue, submitListeners,
          chatListSelected, itemCount, clientPhase, chats, clSelectedChat,
          chSelectedChat, currentMessages, content, isActive, interval,
          intervalTimers, loads,
          timers, completions, sends, lastIssued, insertFrom, last, fetched,
          loaded, pipelines, aiLogger, lastInteractionId, now, finished,
          aiNotice, raw, cleanings, typed, parsed, inCommandMode,
          commandBuffer, previousMode, currentView, keypressListeners,
          promptHandler, stroke, teardown, exitCode>>

appVars == <<mode, focused, reading, inputValue, submitListeners,
             chatListSelected, itemCount, clientPhase, chats, clSelectedChat,
             chSelectedChat, currentMessages, content, isActive, interval,
          intervalTimers, loads,
             timers, completions, sends, lastIssued, insertFrom, last,
             inCommandMode, commandBuffer, previousMode, currentView,
             keypressListeners, promptHandler, stroke, teardown, exitCode>>

loadVars == <<fetched, loaded>>

parseVars == <<typed, parsed>>

aiVars == <<pipelines, aiLogger, lastInteractionId, now, finished, aiNotice>>

cleanVars == <<raw, cleanings>>

\* messageBox content: what is painted and the list painted (if any)
Content(kind) == [kind |-> kind, msgs |-> <<>>]

MessagesContent(msgs) == [kind |-> "messages", msgs |-> msgs]

\* last: the text the most recent handler committed (enter in the input box),
\* the 'send-message' events it emitted, its calls of WhatsAppClient.sendMessage,
\* what it handed to the chat service, how the getChatMessages call it ended
\* came out, and (for a completion) the chat that was selected when its /p
\* command was issued
NoEffect ==
    [commit |-> <<>>, sendEvents |-> 0, sendCalls |-> 0, delivered |-> <<>>,
     loadEnded |-> <<>>, issuedChat |-> NULL,
     context |-> <<>>, draftChat |-> NULL]

\* stroke: key.name of the most recent keystroke ("char" for a key that has
\* a character only, "none" when the most recent step was no keystroke) and
\* the prompt events its handlers emitted
NoStroke == [key |-> "none", events |-> <<>>]

\* the program fields as one record, with the transient parts of a handler's
\* run, which are never part of a state: thrown marks an exception in flight,
\* rewind is where the widget library's focus history sends the focus should
\* the handler hide the focused widget, live tells whether the emitter of the
\* widget library walks its listener array while handlers change it
Cur ==
    [mode |-> mode, focused |-> focused,
     reading |-> reading, inputValue |-> inputValue,
     submitListeners |-> submitListeners, insertFrom |-> insertFrom,
     chatListSelected |-> chatListSelected, itemCount |-> itemCount,
     clientPhase |-> clientPhase, chats |-> chats,
     clSelectedChat |-> clSelectedChat, chSelectedChat |-> chSelectedChat,
     currentMessages |-> currentMessages, content |-> content,
     isActive |-> isActive, interval |-> interval,
     intervalTimers |-> intervalTimers, loads |-> loads,
     timers |-> timers, completions |-> completions, sends |-> sends,
     lastIssued |-> lastIssued, last |-> last,
     inCommandMode |-> inCommandMode, commandBuffer |-> commandBuffer,
     previousMode |-> previousMode, currentView |-> currentView,
     keypressListeners |-> keypressListeners,
     promptHandler |-> promptHandler,
     stroke |-> stroke, teardown |-> teardown, exitCode |-> exitCode,
     thrown |-> FALSE, rewind |-> "none", live |-> FALSE]

Begin == [Cur EXCEPT !.last = NoEffect, !.stroke = NoStroke]

\* where the focus may go when the focused widget is hidden: to a visible
\* widget of the focus history, or nowhere when the history holds none. The
\* history and the widgets' visibility are not kept, so every other widget
\* is a candidate.
RewindTargets(hidden) ==
    {"chatList", "messageBox", "inputBox", "none"} \ {hidden}

BeginWith(rewind) == [Begin EXCEPT !.rewind = rewind]

\* calls in flight are counted per key; a key is one call's captured values
LoadKeys == [chat : Chats, via : {"_refreshMessages", "_refreshCurrentChat"}]

SendKinds == {"regular", "ai"}

NoneInFlight(keys) == [k \in keys |-> 0]

Add(b, k) == [b EXCEPT ![k] = @ + 1]

Remove(b, k) == [b EXCEPT ![k] = @ - 1]

InFlight(b) == {k \in DOMAIN b : b[k] > 0}

Count(b) ==
    Cardinality({p \in (DOMAIN b) \X (1..(MaxInFlight + 1)) : p[2] <= b[p[1]]})

WithinBounds(s) ==
    Count(s.loads) + s.timers + Count(s.completions) + Count(s.sends) <= MaxInFlight

AssignApp(s) ==
    /\ WithinBounds(s)
    /\ mode' = s.mode
    /\ focused' = s.focused
    /\ reading' = s.reading
    /\ inputValue' = s.inputValue
    /\ submitListeners' = s.submitListeners
    /\ insertFrom' = s.insertFrom
    /\ chatListSelected' = s.chatListSelected
    /\ itemCount' = s.itemCount
    /\ clientPhase' = s.clientPhase
    /\ chats' = s.chats
    /\ clSelectedChat' = s.clSelectedChat
    /\ chSelectedChat' = s.chSelectedChat
    /\ currentMessages' = s.currentMessages
    /\ content' = s.content
    /\ isActive' = s.isActive
    /\ interval' = s.interval
    /\ intervalTimers' = s.intervalTimers
    /\ loads' = s.loads
    /\ timers' = s.timers
    /\ completions' = s.completions
    /\ sends' = s.sends
    /\ lastIssued' = s.lastIssued
    /\ last' = s.last
    /\ inCommandMode' = s.inCommandMode
    /\ commandBuffer' = s.commandBuffer
    /\ previousMode' = s.previousMode
    /\ keypressListeners' = s.keypressListeners
    /\ promptHandler' = s.promptHandler
    /\ stroke' = s.stroke
    /\ teardown' = s.teardown
    /\ exitCode' = s.exitCode

\* the handler's result becomes the next state; the view is not kept by the
\* specifications that never read it
Apply(s) ==
    /\ AssignApp(s)
    /\ UNCHANGED <<currentView, loadVars, parseVars, cleanVars, aiVars>>

\* the handler's result becomes the next state, the view included
ApplyKeys(s) ==
    /\ AssignApp(s)
    /\ currentView' = s.currentView
    /\ UNCHANGED <<loadVars, parseVars, cleanVars, aiVars>>

(***************************************************************************)
(* MatrixAnimation                                                         *)
(***************************************************************************)
\* start() without its test of the interval field
AnimStart_Unguarded(s) ==
    [s EXCEPT !.isActive = TRUE, !.interval = TRUE, !.intervalTimers = @ + 1]

\* MatrixAnimation.start
AnimStart(s) ==
    IF s.interval THEN s
    ELSE [s EXCEPT !.isActive = TRUE, !.interval = TRUE,
                   !.intervalTimers = @ + 1]

\* MatrixAnimation.stop
AnimStop(s) ==
    [s EXCEPT !.isActive = FALSE, !.interval = FALSE,
              !.intervalTimers = IF s.interval THEN @ - 1 ELSE @,
              !.content = Content("empty")]

\* listener of 'start-matrix'
OnStartMatrix(s) == AnimStart([s EXCEPT !.content = Content("empty")])

\* listener of 'stop-matrix'
OnStopMatrix(s) == AnimStop(s)

\* updateBackground without its test of isActive
UpdateBackground_Unchecked(s) == [s EXCEPT !.content = Content("matrix")]

\* MatrixAnimation.updateBackground, run by the interval timer
UpdateBackground(s) ==
    IF ~s.isActive THEN s ELSE [s EXCEPT !.content = Content("matrix")]

(***************************************************************************)
(* WhatsAppClient                                                          *)
(***************************************************************************)
\* WhatsAppClient.setSelectedChat: the assignment, then a log line that reads
\* chat.id.user and so throws a TypeError when chat is null
setSelectedChat(s, chat) ==
    [s EXCEPT !.clSelectedChat = chat, !.thrown = (chat = NULL)]

\* sendMessage without its check of the selected chat
sendMessage_Unchecked(s, message, kind) ==
    [s EXCEPT !.last.sendCalls = @ + 1,
              !.last.delivered =
                  Append(@, [chat |-> s.clSelectedChat, text |-> message]),
              !.sends = Add(@, kind)]

\* WhatsAppClient.sendMessage up to its await: throws 'No chat selected' or
\* hands the text to the chat service for the chat selected now
sendMessage(s, message, kind) ==
    IF s.clSelectedChat = NULL
    THEN [s EXCEPT !.thrown = TRUE, !.last.sendCalls = @ + 1]
    ELSE [s EXCEPT !.last.sendCalls = @ + 1,
                   !.last.delivered =
                       Append(@, [chat |-> s.clSelectedChat, text |-> message]),
                   !.sends = Add(@, kind)]

\* process.on('uncaughtException'): the error is painted, the process goes on
UncaughtException(s) == [s EXCEPT !.content = Content("uncaught"), !.thrown = FALSE]

\* end of a key or event handler run by the event loop
EventLoop(s) == IF s.thrown THEN UncaughtException(s) ELSE s

(***************************************************************************)
(* MessageHandler                                                          *)
(***************************************************************************)
\* MessageHandler._displayMessages
_displayMessages(s, messages) ==
    IF messages = <<>>
    THEN [s EXCEPT !.content = Content("noMessages"), !.currentMessages = <<>>]
    ELSE [s EXCEPT !.currentMessages = messages,
                   !.content = MessagesContent(messages)]

\* MessageHandler._refreshMessages up to its await
_refreshMessages(s) ==
    IF s.clSelectedChat # NULL
    THEN [s EXCEPT !.content = Content("updating"),
                   !.focused = "inputBox",
                   !.loads = Add(@, [chat |-> s.clSelectedChat,
                                     via |-> "_refreshMessages"])]
    ELSE [s EXCEPT !.content = Content("noChatSelected"), !.focused = "inputBox"]

\* MessageHandler._refreshMessages after getChatMessages resolved
_refreshMessagesResolved(s, selectedChat, messages) ==
    IF messages # <<>>
    THEN LET s1 == _displayMessages(s, messages)
             s2 == setSelectedChat(s1, selectedChat)
         IN  [s2 EXCEPT !.focused = "inputBox"]
    ELSE LET s1 == [s EXCEPT !.content = Content("noMessages")]
             s2 == setSelectedChat(s1, selectedChat)
         IN  [s2 EXCEPT !.focused = "inputBox"]

\* MessageHandler._refreshMessages, catch block
_refreshMessagesRejected(s) ==
    [s EXCEPT !.content = Content("refreshError"), !.focused = "inputBox"]

\* messages.slice(-n)
SliceLast(messages, n) ==
    SubSeq(messages, IF Len(messages) > n THEN Len(messages) - n + 1 ELSE 1,
           Len(messages))

\* messages of the session a draft takes as its context
CONTEXT_LIMIT == 10

\* the phrase that marks a refusal of the completion service, as one character
Sentinel == "I cannot continue the chat history"

\* isSystemMessage of _handlePromptCommand's filter
IsSystemMessage(msg) ==
    \/ StartsWith(msg.body, <<"/">>)
    \/ StartsWith(msg.body, <<":">>)
    \/ \E i \in 1..Len(msg.body) : msg.body[i] = Sentinel

\* the messages _handlePromptCommand formats into options.context
AssembleContext(messages) ==
    LET NotSystem(msg) == ~IsSystemMessage(msg)
    IN  SelectSeq(SliceLast(messages, CONTEXT_LIMIT), NotSystem)

\* the context of a command: empty unless the command names a prompt slug
ContextFor(s, options) ==
    IF options.promptSlug # <<>> /\ options.promptSlug[1] # <<>>
    THEN AssembleContext(s.currentMessages)
    ELSE <<>>

\* MessageHandler._handlePromptCommand up to its await of processMessage
_handlePromptCommand(s, command) ==
    IF s.clSelectedChat = NULL
    THEN [s EXCEPT !.focused = "inputBox"]
    ELSE [s EXCEPT !.content = Content("aiProcessing"),
                   !.last.context = ContextFor(s, parseCommand(command)),
                   !.last.draftChat = s.clSelectedChat,
                   !.completions = Add(@, s.clSelectedChat)]

\* MessageHandler._handleSendMessage up to its first await (and its catch
\* block when sendMessage throws at once)
_handleSendMessage(s, message) ==
    IF StartsWith(message, PromptPrefix)
    THEN _handlePromptCommand(s, message)
    ELSE LET s1 == sendMessage(s, message, "regular")
         IN  IF s1.thrown
             THEN [s1 EXCEPT !.thrown = FALSE,
                             !.content = Content("sendError"),
                             !.focused = "inputBox"]
             ELSE s1

\* MessageHandler._handlePromptCommand after processMessage resolved:
\* sanitize, send to the chat selected now
_promptCompleted(s, response) ==
    LET cleaned == cleanResponse(response)
        s1 == sendMessage(s, cleaned, "ai")
    IN  IF s1.thrown
        THEN [s1 EXCEPT !.thrown = FALSE,
                        !.content = Content("aiSendFailed"),
                        !.focused = "inputBox"]
        ELSE s1

\* after client.sendMessage resolved: the refresh is scheduled
_sendResolved(s, kind) ==
    IF kind = "regular"
    THEN [s EXCEPT !.timers = @ + 1]
    ELSE [s EXCEPT !.timers = @ + 1, !.focused = "inputBox"]

\* after client.sendMessage rejected
_sendRejected(s, kind) ==
    IF kind = "regular"
    THEN [s EXCEPT !.content = Content("sendError"), !.focused = "inputBox"]
    ELSE [s EXCEPT !.content = Content("aiSendFailed"), !.focused = "inputBox"]

(***************************************************************************)
(* ChatHandler                                                             *)
(***************************************************************************)
\* ChatHandler._handleChatSelection
_handleChatSelection(s, index) ==
    IF index + 1 <= Len(s.chats)
    THEN LET selectedChat == s.chats[index + 1]
             isSameChat == s.chSelectedChat = selectedChat
             s1 == [s EXCEPT !.content = Content("empty"),
                             !.chSelectedChat = selectedChat,
                             !.lastIssued = selectedChat]
             s2 == setSelectedChat(s1, selectedChat)
             s3 == [s2 EXCEPT !.content = Content("loading")]
             s4 == _refreshMessages(s3)
         IN  IF ~isSameChat THEN OnStopMatrix(s4) ELSE s4
    ELSE s

\* ChatHandler._refreshCurrentChat up to its await
_refreshCurrentChat(s) ==
    IF s.chSelectedChat # NULL
    THEN [s EXCEPT !.content = Content("updating"),
                   !.loads = Add(@, [chat |-> s.chSelectedChat,
                                     via |-> "_refreshCurrentChat"])]
    ELSE s

\* ChatHandler.clearSelection
clearSelection(s) ==
    IF s.chSelectedChat # NULL
    THEN LET s1 == [s EXCEPT !.chSelectedChat = NULL, !.lastIssued = NULL]
             s2 == setSelectedChat(s1, NULL)
         IN  IF s2.thrown THEN s2 ELSE [s2 EXCEPT !.content = Content("empty")]
    ELSE s

(***************************************************************************)
(* Interface                                                               *)
(***************************************************************************)
\* widget.hide(): a focused widget that is hidden loses the focus
hide(s, widget) ==
    IF s.focused = widget THEN [s EXCEPT !.focused = s.rewind] ELSE s

\* Interface.hideChatList
hideChatList(s) == hide(s, "chatList")

(***************************************************************************)
(* ShortcutHandler                                                         *)
(***************************************************************************)
\* ShortcutHandler._switchView
_switchView(s, view) ==
    LET s0 == [s EXCEPT !.currentView = view]
        s2 == IF view # "MATRIX" THEN OnStopMatrix(s0) ELSE s0
        hideInput(t) == IF t.mode # "INSERT" THEN hide(t, "inputBox") ELSE t
    IN  CASE view = "MATRIX" -> OnStartMatrix(hideInput(hideChatList(s2)))
          [] view = "CHAT_LIST" -> hideInput([s2 EXCEPT !.focused = "chatList"])
          [] view = "HELP" -> hideInput([s2 EXCEPT !.focused = "messageBox"])
          [] OTHER -> s2

\* ShortcutHandler._focusChatList
_focusChatList(s) == _switchView(s, "CHAT_LIST")

\* inputBox.removeAllListeners('submit') and ('cancel')
removeAllListeners(s) == [s EXCEPT !.submitListeners = 0]

\* ShortcutHandler._setupInputModeShortcuts: the listeners are removed, then
\* one 'submit' and one 'cancel' listener are registered
_setupInputModeShortcuts(s) ==
    [removeAllListeners(s) EXCEPT !.submitListeners = @ + 1]

\* _enterInsertMode registering its listeners on top of those already there
_enterInsertMode_KeepListeners(s) ==
    [s EXCEPT !.submitListeners = @ + 1,
              !.insertFrom = s.mode, !.mode = "INSERT", !.inputValue = <<>>,
              !.focused = "inputBox", !.reading = TRUE]

\* ShortcutHandler._enterInsertMode
_enterInsertMode(s) ==
    [_setupInputModeShortcuts(removeAllListeners(s)) EXCEPT
         !.insertFrom = s.mode, !.mode = "INSERT", !.inputValue = <<>>,
         !.focused = "inputBox", !.reading = TRUE]

\* ShortcutHandler._exitInsertMode
_exitInsertMode(s) ==
    [hide(removeAllListeners(s), "inputBox") EXCEPT
         !.insertFrom = NULL, !.inputValue = <<>>,
         !.mode = IF s.chatListSelected # NoIndex THEN "CHAT" ELSE "NORMAL"]

\* ShortcutHandler._selectChat
_selectChat(s, index) ==
    LET s1 == _switchView(s, "CHAT")
        s2 == [s1 EXCEPT !.content = Content("loading")]
    IN  _handleChatSelection(s2, index)

\* the 'submit' listener without its trim
OnSubmit_Untrimmed(s, text) ==
    IF s.mode = "INSERT"
    THEN LET s1 == IF text # <<>>
                   THEN _handleSendMessage(
                            [s EXCEPT !.last.sendEvents = @ + 1], text)
                   ELSE s
         IN  [s1 EXCEPT !.inputValue = <<>>, !.focused = "inputBox",
                        !.reading = TRUE]
    ELSE s

\* listener of the input box 'submit' event (_setupInputModeShortcuts);
\* the text box has stopped reading when it emits the event
OnSubmit(s, text) ==
    IF s.mode = "INSERT"
    THEN LET message == Trim(text)
             s1 == IF message # <<>>
                   THEN _handleSendMessage(
                            [s EXCEPT !.last.sendEvents = @ + 1], message)
                   ELSE s
         IN  [s1 EXCEPT !.inputValue = <<>>, !.focused = "inputBox",
                        !.reading = TRUE]
    ELSE s

\* inputBox.emit('submit', text): every registered listener runs in turn
RECURSIVE EmitSubmit(_, _, _)
EmitSubmit(s, text, listeners) ==
    IF listeners = 0 THEN s
    ELSE EmitSubmit(OnSubmit(s, text), text, listeners - 1)

\* listeners of the input box 'cancel' event and escape key: the first one
\* to run leaves INSERT, the others find the mode changed
OnCancel(s) == IF s.mode = "INSERT" THEN _exitInsertMode(s) ELSE s

\* FOCUS_CHAT_LIST binding (h)
OnKeyH(s) ==
    IF s.mode \in {"NORMAL", "CHAT"} THEN _focusChatList(s) ELSE s

\* FOCUS_CHAT binding (l)
OnKeyL(s) ==
    IF s.mode \in {"NORMAL", "CHAT"} /\ s.clSelectedChat # NULL
    THEN [hideChatList(s) EXCEPT !.focused = "messageBox"]
    ELSE s

\* FOCUS_INPUT binding (i)
OnKeyI(s) ==
    IF s.mode \in {"NORMAL", "CHAT"} THEN _enterInsertMode(s) ELSE s

\* NAV_DOWN binding (j)
OnKeyJ(s) ==
    IF s.mode \in {"NORMAL", "CHAT"} /\ s.focused = "chatList"
    THEN IF s.chatListSelected # NoIndex /\ s.chatListSelected < s.itemCount - 1
         THEN [s EXCEPT !.chatListSelected = @ + 1]
         ELSE IF s.chatListSelected = NoIndex /\ s.itemCount > 0
              THEN [s EXCEPT !.chatListSelected = 0]
              ELSE s
    ELSE s

\* NAV_UP binding (k)
OnKeyK(s) ==
    IF s.mode \in {"NORMAL", "CHAT"} /\ s.focused = "chatList"
       /\ s.chatListSelected # NoIndex /\ s.chatListSelected > 0
    THEN [s EXCEPT !.chatListSelected = @ - 1]
    ELSE s

\* chatList enter binding (it fires when the chat list has the focus)
OnKeyEnter(s) ==
    IF s.focused = "chatList" /\ s.mode \in {"NORMAL", "CHAT"}
       /\ ~s.inCommandMode /\ s.mode # "HELP"
    THEN hideChatList([_selectChat(s, s.chatListSelected) EXCEPT !.mode = "CHAT"])
    ELSE s

\* the CLEAR_CHAT binding without its 'clear-selection' event
OnKeyEscape_KeepSelection(s) ==
    IF s.mode = "CHAT"
    THEN OnStartMatrix([s EXCEPT !.mode = "NORMAL"])
    ELSE s

\* CLEAR_CHAT binding (escape)
OnKeyEscape(s) ==
    IF s.mode = "CHAT"
    THEN clearSelection(OnStartMatrix([s EXCEPT !.mode = "NORMAL"]))
    ELSE s

\* REFRESH binding (r)
OnKeyR(s) == IF s.mode = "CHAT" THEN _refreshCurrentChat(s) ELSE s

(***************************************************************************)
(* PromptHandler                                                           *)
(***************************************************************************)
\* screen.emit(name, arg) by a numeric capture's callback or by :w: the
\* event is noted in the keystroke's history; num holds a numeric argument
\* (<<>> when the event carries none)
Emitted(s, name, num) ==
    [s EXCEPT !.stroke.events = Append(@, [name |-> name, num |-> num])]

\* PromptHandler._enterCreateMode
_enterCreateMode(s) ==
    [s EXCEPT !.promptHandler.mode = "CREATE", !.inputValue = <<>>,
              !.content = Content("createPrompt"), !.focused = "inputBox"]

\* PromptHandler._enterEditMode
_enterEditMode(s, index) ==
    IF index >= 0 /\ index < s.promptHandler.prompts
    THEN [s EXCEPT !.promptHandler.mode = "EDIT", !.inputValue = <<"p">>,
                   !.content = Content("editPrompt"), !.focused = "inputBox"]
    ELSE s

\* PromptHandler._savePrompt, with _savePrompts and _showPrompts
_savePrompt(s, text) ==
    IF Trim(text) = <<>>
    THEN [s EXCEPT !.content = Content("promptEmpty")]
    ELSE [s EXCEPT !.promptHandler.prompts =
                       IF s.promptHandler.mode = "CREATE" THEN @ + 1 ELSE @,
                   !.promptHandler.mode = "VIEW",
                   !.content = Content("prompts")]

\* PromptHandler._yankPrompt
_yankPrompt(s, index) ==
    IF index >= 0 /\ index < s.promptHandler.prompts
    THEN [s EXCEPT !.content = Content("yanked")]
    ELSE s

(***************************************************************************)
(* ShortcutHandler: command mode, captures and help                        *)
(***************************************************************************)
\* the keys of the prompt bindings, as the help text of _showHelp names them
CREATE_PROMPT == "o"

EDIT_PROMPT == "e"

YANK_PROMPT == "y"

PASTE_PROMPT == "p"

SEARCH_PROMPTS == "/"

Digits == {"1"}

\* keys that come with a character, and keys that come with a name only;
\* the keys that move the chat list's highlight are left to Spec
CharKeys ==
    {":", "h", "l", "i", "r", "w", "P", "q",
     CREATE_PROMPT, EDIT_PROMPT, YANK_PROMPT, PASTE_PROMPT, SEARCH_PROMPTS}
        \cup Digits

NamedKeys == {"enter", "escape", "backspace", "C-c"}

Keys == CharKeys \cup NamedKeys

\* the commands the user types after ':' (":i" stands for an unknown command)
TypedCommands ==
    {<<"h", "e", "l", "p">>, <<"p">>, <<"P">>, <<"w">>, <<"i">>, <<"q">>}

\* the characters the user types into a search
SearchChars == {"w", SEARCH_PROMPTS}

\* String.prototype.toLowerCase on the characters the keys produce
toLowerCase(text) ==
    [n \in DOMAIN text |-> IF text[n] = "P" THEN "p" ELSE text[n]]

\* parseInt on a string of the digits in Digits
RECURSIVE parseInt(_)
parseInt(digits) ==
    IF digits = <<>> THEN 0
    ELSE 10 * parseInt(SubSeq(digits, 1, Len(digits) - 1)) + 1

\* a listener armed on the screen's 'keypress' event: kind tells which
\* handler it is, op the callback a numeric capture was armed with, text its
\* local variable (number, searchTerm), previousContent what _showHelp kept
KeypressListener(kind, op, previousContent) ==
    [kind |-> kind, op |-> op, text |-> <<>>,
     previousContent |-> previousContent]

\* screen.removeListener('keypress', handler) for the handler a
\* current...Handler field refers to
removeListener(s, kind) ==
    [s EXCEPT !.keypressListeners = SelectSeq(@, LAMBDA h : h.kind # kind)]

\* screen.removeListener('keypress', handler) called by the handler itself
removeListenerAt(s, n) ==
    [s EXCEPT !.keypressListeners =
                  SubSeq(@, 1, n - 1) \o SubSeq(@, n + 1, Len(@))]

\* _handleNumberInput arming its handler next to the one already armed
_handleNumberInput_KeepPrevious(s, op) ==
    [s EXCEPT !.keypressListeners =
                  Append(@, KeypressListener("number", op, <<>>))]

\* ShortcutHandler._handleNumberInput
_handleNumberInput(s, op) ==
    [removeListener(s, "number") EXCEPT
         !.keypressListeners = Append(@, KeypressListener("number", op, <<>>))]

\* the callbacks _handleNumberInput is armed with (EDIT_PROMPT, YANK_PROMPT)
NumberCallback(s, op, num) ==
    IF op = "edit-prompt"
    THEN _enterEditMode(Emitted(s, "edit-prompt", <<num - 1>>), num - 1)
    ELSE _yankPrompt(Emitted(s, "yank-prompt", <<num - 1>>), num - 1)

\* numberHandler of _handleNumberInput, armed at position n
numberHandler(s, n, key) ==
    LET number == s.keypressListeners[n].text
    IN  IF key = "escape" THEN removeListenerAt(s, n)
        ELSE IF key \in Digits
             THEN [s EXCEPT !.keypressListeners[n].text = Append(@, key)]
        ELSE IF key = "enter" /\ number # <<>>
             THEN removeListenerAt(
                      NumberCallback(s, s.keypressListeners[n].op,
                                     parseInt(number)), n)
        ELSE s

\* searchHandler of the SEARCH_PROMPTS binding, armed at position n; enter
\* emits 'search-prompts', and _searchPrompts finds nothing to show while
\* there are no prompts
searchHandler(s, n, key) ==
    IF key = "escape" THEN removeListenerAt(s, n)
    ELSE IF key = "enter" THEN removeListenerAt(s, n)
    ELSE IF key = "backspace"
         THEN [s EXCEPT !.keypressListeners[n].text = SubSeq(@, 1, Len(@) - 1)]
    ELSE [s EXCEPT !.keypressListeners[n].text = Append(@, key)]

\* helpHandler of _showHelp, armed at position n with screen.once
helpHandler(s, n) ==
    removeListenerAt(
        [s EXCEPT !.mode = s.previousMode,
                  !.content = s.keypressListeners[n].previousContent[1]], n)

\* ShortcutHandler._showHelp
_showHelp(s) ==
    LET s1 == [s EXCEPT !.previousMode = s.mode, !.mode = "HELP",
                        !.content = Content("help")]
    IN  [removeListener(s1, "help") EXCEPT
             !.keypressListeners =
                 Append(@, KeypressListener("help", "help", <<s.content>>))]

\* WhatsAppClient.destroy up to its await of the library client's destroy():
\* the teardown is under way; what follows the await (and with it the
\* resolution of destroy's promise) needs a later turn of the event loop
destroy(s) ==
    IF s.teardown = "idle" THEN [s EXCEPT !.teardown = "requested"] ELSE s

\* WhatsAppTerminal.cleanup: it stops the animation and calls destroy()
\* without awaiting it
cleanup(s) == destroy(AnimStop(s))

\* process.exit(code): the two 'exit' listeners run cleanup, then the
\* process ends; no later turn of the event loop runs
processExit(s, code) == [cleanup(cleanup(s)) EXCEPT !.exitCode = <<code>>]

\* the handler was cut short by an exception or by the end of the process
Stopped(s) == s.thrown \/ s.exitCode # <<>>

\* ShortcutHandler._handleCommand; this._createPrompt is no function, so the
\* call of it throws a TypeError once the mode is set
_handleCommand(s, command) ==
    LET s1 == removeListener(s, "help")
        lower == toLowerCase(command)
    IN  CASE lower = <<"h", "e", "l", "p">> -> _showHelp(s1)
          [] lower \in {<<"p">>, <<"p", "r", "o", "m", "p", "t", "s">>} ->
                 IF s1.mode # "PROMPT"
                 THEN [s1 EXCEPT !.mode = "PROMPT", !.thrown = TRUE]
                 ELSE s1
          [] lower = <<"w">> ->
                 IF s1.mode = "PROMPT_EDIT"
                 THEN IF Trim(s1.inputValue) # <<>>
                      THEN [_savePrompt(Emitted(s1, "save-prompt", <<>>),
                                        s1.inputValue)
                               EXCEPT !.mode = "PROMPT"]
                      ELSE s1
                 ELSE s1
          [] lower = <<"q">> ->
                 processExit(destroy([s1 EXCEPT !.content = Content("closing")]),
                             0)
          [] OTHER -> s1

\* keypressHandler whose backspace leaves the flag set on an empty buffer
keypressHandler_KeepFlag(s, key) ==
    IF s.mode = "HELP"
    THEN LET s1 == [s EXCEPT !.mode = s.previousMode]
         IN  IF s.previousMode = "CHAT"
             THEN _refreshCurrentChat(s1)
             ELSE OnStartMatrix(s1)
    ELSE IF s.inCommandMode
    THEN CASE key = "escape" ->
                  [s EXCEPT !.commandBuffer = <<>>, !.inCommandMode = FALSE]
           [] key = "enter" ->
                  _handleCommand(
                      [s EXCEPT !.commandBuffer = <<>>,
                                !.inCommandMode = FALSE],
                      Tail(s.commandBuffer))
           [] key = "backspace" ->
                  [s EXCEPT !.commandBuffer = SubSeq(@, 1, Len(@) - 1)]
           [] OTHER -> [s EXCEPT !.commandBuffer = Append(@, key)]
    ELSE IF key = ":"
    THEN [s EXCEPT !.inCommandMode = TRUE, !.commandBuffer = <<":">>]
    ELSE s

\* keypressHandler of _setupPromptModeShortcuts, the first listener of the
\* screen's 'keypress' event after the logging one
keypressHandler(s, key) ==
    IF s.mode = "HELP"
    THEN LET s1 == [s EXCEPT !.mode = s.previousMode]
         IN  IF s.previousMode = "CHAT"
             THEN _refreshCurrentChat(s1)
             ELSE OnStartMatrix(s1)
    ELSE IF s.inCommandMode
    THEN CASE key = "escape" ->
                  [s EXCEPT !.commandBuffer = <<>>, !.inCommandMode = FALSE]
           [] key = "enter" ->
                  _handleCommand(
                      [s EXCEPT !.commandBuffer = <<>>,
                                !.inCommandMode = FALSE],
                      Tail(s.commandBuffer))
           [] key = "backspace" ->
                  [s EXCEPT !.commandBuffer = SubSeq(@, 1, Len(@) - 1),
                            !.inCommandMode = Len(s.commandBuffer) > 1]
           [] OTHER -> [s EXCEPT !.commandBuffer = Append(@, key)]
    ELSE IF key = ":"
    THEN [s EXCEPT !.inCommandMode = TRUE, !.commandBuffer = <<":">>]
    ELSE s

\* the listener armed at position n runs
RunListener(s, n, key) ==
    CASE s.keypressListeners[n].kind = "number" -> numberHandler(s, n, key)
      [] s.keypressListeners[n].kind = "search" -> searchHandler(s, n, key)
      [] OTHER -> helpHandler(s, n)

\* the armed listeners run in the order they were armed in. Node's emitter
\* calls the listeners that were armed when the event was emitted; an emitter
\* that walks its array while it changes (s.live) also calls a listener armed
\* during the emission and passes over the one behind a listener that
\* removed itself. todo counts the listeners of the first kind still to run.
RECURSIVE RunListeners(_, _, _, _)
RunListeners(s, n, todo, key) ==
    IF Stopped(s) \/ n > Len(s.keypressListeners) \/ (~s.live /\ todo = 0)
    THEN s
    ELSE LET t == RunListener(s, n, key)
             removed == Len(t.keypressListeners) < Len(s.keypressListeners)
         IN  RunListeners(t, IF removed /\ ~s.live THEN n ELSE n + 1,
                          todo - 1, key)

\* screen.emit('keypress', ch, key)
EmitKeypress(s, key) ==
    LET s1 == keypressHandler(s, key)
    IN  RunListeners(s1, 1, Len(s.keypressListeners), key)

\* CREATE_PROMPT binding: 'create-prompt' is emitted
OnKeyO(s) == IF s.mode = "PROMPT" THEN _enterCreateMode(s) ELSE s

\* EDIT_PROMPT binding
OnKeyE(s) ==
    IF s.mode = "PROMPT" THEN _handleNumberInput(s, "edit-prompt") ELSE s

\* YANK_PROMPT binding
OnKeyY(s) ==
    IF s.mode = "PROMPT" THEN _handleNumberInput(s, "yank-prompt") ELSE s

\* PASTE_PROMPT binding: 'paste-prompt' is emitted, and _pastePrompt does
\* nothing while yankBuffer is null (only _yankPrompt fills it)
OnKeyP(s) == s

\* SEARCH_PROMPTS binding
OnKeySlash(s) ==
    IF s.mode = "PROMPT"
    THEN [removeListener(s, "search") EXCEPT
              !.keypressListeners =
                  Append(@, KeypressListener("search", "search", <<>>))]
    ELSE s

\* the escape binding of _setupPromptModeShortcuts
OnKeyEscapePrompt(s) ==
    IF s.mode = "PROMPT"
    THEN OnStartMatrix([s EXCEPT !.mode = "NORMAL"])
    ELSE s

\* the C-c bindings: Interface's, made first, ends the process at once, so
\* the QUIT binding of _setupGlobalShortcuts, which awaits destroy(), never
\* runs
OnKeyCtrlC(s) == processExit(s, 0)

\* screen.emit('key ' + name): the bindings of the key run in the order
\* setupShortcuts made them in, up to the first one that throws
EmitKey(s, key) ==
    CASE key = "r" -> OnKeyR(s)
      [] key = "h" -> OnKeyH(s)
      [] key = "l" -> OnKeyL(s)
      [] key = "i" -> OnKeyI(s)
      [] key = "escape" ->
             LET s1 == OnKeyEscape(s)
             IN  IF s1.thrown THEN s1 ELSE OnKeyEscapePrompt(s1)
      [] key = CREATE_PROMPT -> OnKeyO(s)
      [] key = EDIT_PROMPT -> OnKeyE(s)
      [] key = YANK_PROMPT -> OnKeyY(s)
      [] key = PASTE_PROMPT -> OnKeyP(s)
      [] key = SEARCH_PROMPTS -> OnKeySlash(s)
      [] key = "C-c" -> OnKeyCtrlC(s)
      [] OTHER -> s

\* the bindings of the widget that had the focus when the key arrived
EmitFocusedKey(s, key, widget) ==
    CASE widget = "chatList" /\ key = "enter" -> OnKeyEnter(s)
      [] widget = "inputBox" /\ key = "escape" -> OnCancel(s)
      [] OTHER -> s

\* one keystroke as the screen hands it on: its 'keypress' listeners, its
\* bindings of the key, then (unless the input box started to read) the
\* bindings of the focused widget; an exception ends the dispatch. What a
\* listener returns stops nothing: the chat list's enter binding tests
\* inCommandMode and HELP itself.
Dispatch(s, key) ==
    LET s1 == EmitKeypress(s, key)
        s2 == IF Stopped(s1) THEN s1 ELSE EmitKey(s1, key)
    IN  IF Stopped(s2) \/ s2.reading # s.reading THEN s2
        ELSE EmitFocusedKey(s2, key, s.focused)

(***************************************************************************)
(* What the services answer                                                *)
(***************************************************************************)
\* the body of the message with id i: a plain text, a '/' command line or a
\* ':' command line
BodyOf(i) ==
    CASE i % 3 = 1 -> <<"h">>
      [] i % 3 = 2 -> <<"/", "p">>
      [] OTHER -> <<":", "q">>

Msg(c, i, t) == [id |-> i, chat |-> c, timestamp |-> t, body |-> BodyOf(i)]

\* lists fetchMessages resolves to for chat c
FetchAnswers(c) == {<<>>, <<Msg(c, 1, 2), Msg(c, 2, 1)>>}

\* raw texts the completion service resolves to
Responses == {<<>>, <<"h">>, <<"<", "b", ">">>, <<"*", "h", "*">>}

\* what the runtime does with a rejected promise nobody handles: Node 15 and
\* later raise it as an uncaught exception, earlier versions only warn
RejectionOutcomes == {"uncaught", "warning"}

(***************************************************************************)
(* Initial state: after WhatsAppTerminal's constructor and initialize()    *)
(***************************************************************************)
InitApp ==
    /\ mode = "NORMAL"
    /\ focused = "chatList"
    /\ reading = FALSE
    /\ inputValue = <<>>
    /\ submitListeners = 1
    /\ insertFrom = NULL
    /\ chatListSelected = 0
    /\ itemCount = 0
    /\ clientPhase = "starting"
    /\ chats = <<>>
    /\ clSelectedChat = NULL
    /\ chSelectedChat = NULL
    /\ currentMessages = <<>>
    /\ content = Content("empty")
    /\ isActive = TRUE
    /\ interval = TRUE
    /\ intervalTimers = 1
    /\ loads = NoneInFlight(LoadKeys)
    /\ timers = 0
    /\ completions = NoneInFlight(Chats)
    /\ sends = NoneInFlight(SendKinds)
    /\ lastIssued = NULL
    /\ last = NoEffect
    /\ inCommandMode = FALSE
    /\ commandBuffer = <<>>
    /\ previousMode = "NORMAL"
    /\ currentView = "MATRIX"
    /\ keypressListeners = <<>>
    /\ promptHandler = [mode |-> "VIEW", prompts |-> 0]
    /\ stroke = NoStroke
    /\ teardown = "idle"
    /\ exitCode = <<>>

NotLoaded == [done |-> FALSE, list |-> <<>>]

\* getChatMessages on its own is not exercised
NoLoad == fetched = <<>> /\ loaded = NotLoaded

NotParsed == [done |-> FALSE, options |-> <<>>]

\* parseCommand on its own is not exercised
NoParse == typed = <<>> /\ parsed = NotParsed

NotCleaned == [done |-> FALSE, once |-> <<>>, twice |-> <<>>]

\* cleanResponse on its own is not exercised
NoClean == raw = <<>> /\ cleanings = NotCleaned

\* a /p command not issued yet: promptSlug as parseCommand leaves it,
\* interactionId the local variable of processMessage (<<>> for null), error
\* the error the command ended with (<<>> for none); invoked and
\* sendAttempts count the calls of the completion service and of sendMessage
IdlePipeline ==
    [stage |-> "idle", promptSlug |-> <<>>, invoked |-> 0, sendAttempts |-> 0,
     sent |-> "none", interactionId |-> <<>>, error |-> <<>>]

\* the AI pipeline before any /p command; lastInteractionId is null
InitAI ==
    /\ pipelines = [p \in Pids |-> IdlePipeline]
    /\ aiLogger = InitLogger
    /\ lastInteractionId = <<>>
    /\ now = 0
    /\ finished = <<>>
    /\ aiNotice = "none"

Init ==
    /\ InitApp
    /\ NoLoad
    /\ NoParse
    /\ NoClean
    /\ InitAI

(***************************************************************************)
(* Actions: one per event the event loop delivers                          *)
(***************************************************************************)
\* the client's 'ready' event: _handleReady up to its await
HandleReady ==
    /\ clientPhase = "starting"
    /\ Apply([Begin EXCEPT !.clientPhase = "loadingChats",
                                          !.content = Content("ready")])

\* 'chats-loaded' filling the chat list and committing its first entry
ChatsLoaded_AutoSelect ==
    /\ clientPhase = "loadingChats"
    /\ LET s == [Begin EXCEPT !.clientPhase = "ready",
                              !.chats = ServiceChats,
                              !.content = Content("selectChat"),
                              !.itemCount = Len(ServiceChats)]
       IN  Apply(EventLoop(_handleChatSelection(s, 0)))

\* _handleReady after getChats resolved; 'chats-loaded' fills the chat list
ChatsLoaded ==
    /\ clientPhase = "loadingChats"
    /\ LET s == [Begin EXCEPT !.clientPhase = "ready",
                                             !.chats = ServiceChats]
       IN  Apply(IF Len(s.chats) > 0
                 THEN [s EXCEPT !.content = Content("selectChat"),
                                !.itemCount = Len(s.chats)]
                 ELSE [s EXCEPT !.content = Content("noChats")])

\* _handleReady, catch block
ChatsFailed ==
    /\ clientPhase = "loadingChats"
    /\ Apply([Begin EXCEPT !.clientPhase = "failed",
                                          !.content = Content("chatsError")])

\* a registered interval timer of the animation fires
Tick ==
    /\ intervalTimers > 0
    /\ Apply(UpdateBackground(Begin))

\* keys reach the screen bindings only while the input box is not reading
KeyH == ~reading /\ Apply(EventLoop(OnKeyH(Begin)))

KeyL == ~reading /\ Apply(EventLoop(OnKeyL(Begin)))

KeyI == ~reading /\ Apply(EventLoop(OnKeyI(Begin)))

KeyJ == ~reading /\ Apply(EventLoop(OnKeyJ(Begin)))

KeyK == ~reading /\ Apply(EventLoop(OnKeyK(Begin)))

KeyEnter ==
    /\ ~reading
    /\ \E rewind \in RewindTargets("chatList") :
          Apply(EventLoop(OnKeyEnter(BeginWith(rewind))))

KeyEscape == ~reading /\ Apply(EventLoop(OnKeyEscape(Begin)))

KeyR == ~reading /\ Apply(EventLoop(OnKeyR(Begin)))

\* the reading input box takes the typed keys itself; enter ends the typing:
\* the box stops reading and emits 'submit' with the text it holds
Submit ==
    /\ reading
    /\ \E text \in TypedTexts :
          Apply(EventLoop(EmitSubmit([Begin EXCEPT !.reading = FALSE,
                                                   !.inputValue = text,
                                                   !.last.commit = <<text>>],
                                     text, submitListeners)))

\* escape ends the typing: the box stops reading and emits 'cancel'
Cancel ==
    /\ reading
    /\ \E text \in CancelledTexts, rewind \in RewindTargets("inputBox") :
          Apply(EventLoop(OnCancel([BeginWith(rewind) EXCEPT
                                        !.reading = FALSE,
                                        !.inputValue = text])))

\* a getChatMessages call resolves
LoadResolve ==
    \E k \in InFlight(loads) : \E answer \in FetchAnswers(k.chat) :
        LET s == [Begin EXCEPT
                      !.loads = Remove(@, k),
                      !.last.loadEnded = <<"resolved">>]
            messages == getChatMessages(answer)
        IN  Apply(IF k.via = "_refreshMessages"
                  THEN _refreshMessagesResolved(s, k.chat, messages)
                  ELSE _displayMessages(s, messages))

\* a getChatMessages call rejects: _refreshMessages catches it,
\* ChatHandler._refreshCurrentChat leaves the rejection unhandled
LoadReject ==
    \E k \in InFlight(loads) : \E outcome \in RejectionOutcomes :
        LET s == [Begin EXCEPT
                      !.loads = Remove(@, k),
                      !.last.loadEnded = <<"rejected">>]
        IN  /\ k.via = "_refreshMessages" => outcome = "uncaught"
            /\ Apply(IF k.via = "_refreshMessages"
                     THEN _refreshMessagesRejected(s)
                     ELSE IF outcome = "uncaught" THEN UncaughtException(s)
                          ELSE s)

\* the debounce timer set after a send fires
TimerFire ==
    /\ timers > 0
    /\ Apply(_refreshMessages([Begin EXCEPT !.timers = @ - 1]))

\* a processMessage call resolves with the raw completion
CompletionResolve ==
    \E c \in InFlight(completions) : \E response \in Responses :
        Apply(_promptCompleted(
                  [Begin EXCEPT !.completions = Remove(@, c),
                                !.last.issuedChat = c],
                  response))

\* a processMessage call rejects: _handlePromptCommand returns the error text
CompletionReject ==
    \E c \in InFlight(completions) :
        Apply([Begin EXCEPT !.completions = Remove(@, c), !.focused = "inputBox"])

\* a client.sendMessage call resolves
SendResolve ==
    \E kind \in InFlight(sends) :
        Apply(_sendResolved([Begin EXCEPT !.sends = Remove(@, kind)], kind))

\* a client.sendMessage call rejects
SendReject ==
    \E kind \in InFlight(sends) :
        Apply(_sendRejected([Begin EXCEPT !.sends = Remove(@, kind)], kind))

Next ==
    \/ HandleReady
    \/ ChatsLoaded
    \/ ChatsFailed
    \/ Tick
    \/ KeyH
    \/ KeyL
    \/ KeyI
    \/ KeyJ
    \/ KeyK
    \/ KeyEnter
    \/ KeyEscape
    \/ KeyR
    \/ Submit
    \/ Cancel
    \/ LoadResolve
    \/ LoadReject
    \/ TimerFire
    \/ CompletionResolve
    \/ CompletionReject
    \/ SendResolve
    \/ SendReject

Spec == Init /\ [][Next]_vars

(***************************************************************************)
(* The application with an AI draft that names a prompt slug               *)
(***************************************************************************)
\* a /p command with a prompt slug
DraftCommand == <<"/", "p", " ", "-", "p", " ", "m">>

\* enter in the input box on the draft command
SubmitDraft ==
    /\ reading
    /\ Apply(EventLoop(EmitSubmit([Begin EXCEPT !.reading = FALSE,
                                                !.inputValue = DraftCommand,
                                                !.last.commit = <<DraftCommand>>],
                                  DraftCommand, submitListeners)))

NextDraft ==
    \/ Next
    \/ SubmitDraft

SpecDraft == Init /\ [][NextDraft]_vars

(***************************************************************************)
(* getChatMessages on its own: the chat service returns any list, in any   *)
(* order, shorter or longer than the limit                                 *)
(***************************************************************************)
\* a fetched list: message i carries the timestamp head[i], and the n messages
\* after the head carry timestamps that keep cycling
Fetched(head, n) ==
    [i \in 1..(Len(head) + n) |->
        Msg("c1", i, IF i <= Len(head) THEN head[i] ELSE (i % MaxTs) + 1)]

FetchedLists ==
    {Fetched(head, n) :
        head \in SeqsUpTo(1..MaxTs, MaxHead),
        n \in {0} \cup ((FETCH_LIMIT - 1)..(FETCH_LIMIT + MaxExtra))}

InitLoad ==
    /\ InitApp
    /\ fetched \in FetchedLists
    /\ loaded = NotLoaded
    /\ NoParse
    /\ NoClean
    /\ InitAI

\* WhatsAppClient.getChatMessages after fetchMessages resolved
GetChatMessages ==
    /\ ~loaded.done
    /\ loaded' = [done |-> TRUE, list |-> getChatMessages(fetched)]
    /\ UNCHANGED <<fetched, appVars, parseVars, cleanVars, aiVars>>

NextLoad == GetChatMessages

SpecLoad == InitLoad /\ [][NextLoad]_vars

(***************************************************************************)
(* parseCommand on its own: the command of the specification's example,    *)
(* with one or more spaces between its tokens                              *)
(***************************************************************************)
Spaces(n) == [i \in 1..n |-> " "]

HelloWorld == <<"h", "e", "l", "l", "o", " ", "w", "o", "r", "l", "d">>

Formal == <<"f", "o", "r", "m", "a", "l">>

\* /p -ct "hello world" -p formal, with g[k] spaces in its k-th gap
SpacedCommand(g) ==
    <<"/", "p">> \o Spaces(g[1]) \o <<"-", "c", "t">> \o Spaces(g[2])
        \o <<DQ>> \o HelloWorld \o <<DQ>> \o Spaces(g[3])
        \o <<"-", "p">> \o Spaces(g[4]) \o Formal

SpacedCommands == {SpacedCommand(g) : g \in [1..4 -> 1..MaxSpaces]}

InitParse ==
    /\ InitApp
    /\ NoLoad
    /\ NoClean
    /\ InitAI
    /\ typed \in SpacedCommands
    /\ parsed = NotParsed

\* AIHandler.parseCommand applied to the command
ParseCommand ==
    /\ ~parsed.done
    /\ parsed' = [done |-> TRUE, options |-> parseCommand(typed)]
    /\ UNCHANGED <<typed, appVars, loadVars, cleanVars, aiVars>>

NextParse == ParseCommand

SpecParse == InitParse /\ [][NextParse]_vars

(***************************************************************************)
(* cleanResponse on its own: a short raw response, cleaned and cleaned     *)
(* again                                                                   *)
(***************************************************************************)
RawChars == {"/", "a", " ", "*", "<", ">"}

RawResponses == SeqsUpTo(RawChars, MaxRaw)

InitClean ==
    /\ InitApp
    /\ NoLoad
    /\ NoParse
    /\ InitAI
    /\ raw \in RawResponses
    /\ cleanings = NotCleaned

\* AIHandler.cleanResponse applied to the response, then to its own result
CleanResponse ==
    /\ ~cleanings.done
    /\ cleanings' = [done |-> TRUE, once |-> cleanResponse(raw),
                     twice |-> cleanResponse(cleanResponse(raw))]
    /\ UNCHANGED <<raw, appVars, loadVars, parseVars, aiVars>>

NextClean == CleanResponse

SpecClean == InitClean /\ [][NextClean]_vars

(***************************************************************************)
(* The AI pipeline on its own: /p commands from _handlePromptCommand to    *)
(* the interaction log, and the feedback keys.  The refresh timers and the *)
(* widgets are those of Spec and are left out here.                        *)
(***************************************************************************)
\* the /p commands typed: no slug, a loaded slug, a slug that is not loaded
AICommands ==
    {<<"/", "p", " ", "-", "c", "t", " ", "h">>,
     <<"/", "p", " ", "-", "c", "t", " ", "h", " ", "-", "p", " ", "f">>,
     <<"/", "p", " ", "-", "c", "t", " ", "h", " ", "-", "p", " ", "x">>}

InitPipeline ==
    /\ InitApp
    /\ NoLoad
    /\ NoParse
    /\ NoClean
    /\ InitAI

\* the catch block recording an interaction for the failed call
processMessage_RejectedRecording(L, clock, p) ==
    logInteraction(logError(L), clock, p)

\* the catch block of processMessage: the error is logged and thrown again
processMessage_Rejected(L, clock, p) == logError(L)

\* _handlePromptCommand up to the await of processMessage, for the next
\* command; hasChat is whether getSelectedChat() returns a chat
PromptCommand(p, cmd, hasChat) ==
    /\ pipelines[p].stage = "idle"
    /\ \A q \in Pids : q < p => pipelines[q].stage # "idle"
    /\ LET options == parseCommand(cmd)
           slug == options.promptSlug
           issued == [pipelines[p] EXCEPT !.promptSlug = slug]
       IN  IF ~hasChat
           THEN /\ pipelines' = [pipelines EXCEPT ![p] =
                       [issued EXCEPT !.stage = "error",
                                      !.error = <<NoChatSelected>>]]
                /\ UNCHANGED <<aiLogger, aiNotice>>
           ELSE IF HasSlug(slug) /\ ~getPromptBySlug(slug[1])
           THEN /\ pipelines' = [pipelines EXCEPT ![p] =
                       [issued EXCEPT !.stage = "error",
                                      !.error = <<TemplateNotFound(slug[1])>>]]
                /\ aiLogger' = processMessage_Rejected(logError(aiLogger), now, p)
                /\ aiNotice' = "processing"
           ELSE /\ pipelines' = [pipelines EXCEPT ![p] =
                       [issued EXCEPT !.stage = "completing", !.invoked = @ + 1]]
                /\ aiNotice' = "processing"
                /\ UNCHANGED aiLogger
    /\ UNCHANGED <<lastInteractionId, now, finished>>
    /\ UNCHANGED <<appVars, loadVars, parseVars, cleanVars>>

\* the completion service answers: processMessage logs the interaction and
\* returns, _handlePromptCommand cleans the response and calls sendMessage
CompletionResolved(p) ==
    /\ pipelines[p].stage = "completing"
    /\ aiLogger' = logInteraction(aiLogger, now, p)
    /\ pipelines' = [pipelines EXCEPT ![p] =
           [@ EXCEPT !.stage = "sending",
                     !.interactionId = <<InteractionId(now)>>,
                     !.sendAttempts = @ + 1]]
    /\ UNCHANGED <<lastInteractionId, now, finished, aiNotice>>
    /\ UNCHANGED <<appVars, loadVars, parseVars, cleanVars>>

\* the completion service fails: processMessage logs the error and throws,
\* _handlePromptCommand returns the error text
CompletionRejected(p) ==
    /\ pipelines[p].stage = "completing"
    /\ aiLogger' = processMessage_Rejected(aiLogger, now, p)
    /\ pipelines' = [pipelines EXCEPT ![p] =
           [@ EXCEPT !.stage = "error", !.error = <<CompletionFailed>>]]
    /\ UNCHANGED <<lastInteractionId, now, finished, aiNotice>>
    /\ UNCHANGED <<appVars, loadVars, parseVars, cleanVars>>

\* the rest of _handlePromptCommand once sendMessage settled: the status
\* update for this.lastInteractionId, then the assignment to it
SendSettled(p, messageSent) ==
    /\ pipelines[p].stage = "sending"
    /\ aiLogger' = updateInteractionStatus(aiLogger, lastInteractionId,
                                           messageSent, p)
    /\ lastInteractionId' =
           InteractionIdOf(processMessage_Returned("response",
                                                   pipelines[p].interactionId[1]))
    /\ pipelines' = [pipelines EXCEPT ![p] =
           [@ EXCEPT !.stage = "done",
                     !.sent = IF messageSent THEN "ok" ELSE "failed"]]
    /\ finished' = Append(finished, p)
    /\ aiNotice' = IF messageSent THEN aiNotice ELSE "sendFailed"
    /\ UNCHANGED now
    /\ UNCHANGED <<appVars, loadVars, parseVars, cleanVars>>

SendResolved(p) == SendSettled(p, TRUE)

SendRejected(p) == SendSettled(p, FALSE)

\* MessageHandler._handleAIFeedback
AIFeedback(positive) ==
    /\ Len(aiLogger.log) < MaxLog
    /\ IF lastInteractionId = <<>>
       THEN /\ aiNotice' = "noInteraction"
            /\ UNCHANGED aiLogger
       ELSE /\ aiLogger' = recordFeedback(aiLogger, lastInteractionId, positive)
            /\ aiNotice' = "feedbackRecorded"
    /\ UNCHANGED <<pipelines, lastInteractionId, now, finished>>
    /\ UNCHANGED <<appVars, loadVars, parseVars, cleanVars>>

\* a millisecond passes
ClockTick ==
    /\ now < MaxClock
    /\ now' = now + 1
    /\ UNCHANGED <<pipelines, aiLogger, lastInteractionId, finished, aiNotice>>
    /\ UNCHANGED <<appVars, loadVars, parseVars, cleanVars>>

\* the steps the services take on their own
ServiceAnswers ==
    \E p \in Pids :
        \/ CompletionResolved(p)
        \/ CompletionRejected(p)
        \/ SendResolved(p)
        \/ SendRejected(p)

NextPipeline ==
    \/ \E p \in Pids, cmd \in AICommands, hasChat \in BOOLEAN :
           PromptCommand(p, cmd, hasChat)
    \/ \E p \in Pids : CompletionResolved(p)
    \/ \E p \in Pids : CompletionRejected(p)
    \/ \E p \in Pids : SendResolved(p)
    \/ \E p \in Pids : SendRejected(p)
    \/ \E positive \in BOOLEAN : AIFeedback(positive)
    \/ ClockTick

SpecPipeline == InitPipeline /\ [][NextPipeline]_vars

\* the same with every call of a service answered in the end
SpecPipelineFair == SpecPipeline /\ WF_vars(ServiceAnswers)

(***************************************************************************)
(* AILogger on its own: interactions logged at different instants and      *)
(* feedback logged for them                                                *)
(***************************************************************************)
\* AILogger.logInteraction at an instant that has no interaction yet
LogInteraction ==
    /\ Len(aiLogger.log) < MaxLog
    /\ ~aiLogger.files[InteractionId(now)].exists
    /\ aiLogger' = logInteraction(aiLogger, now, 0)
    /\ UNCHANGED <<pipelines, lastInteractionId, now, finished, aiNotice>>
    /\ UNCHANGED <<appVars, loadVars, parseVars, cleanVars>>

\* AILogger.logFeedback for a logged interaction
LogFeedback(interactionId, positive) ==
    /\ Len(aiLogger.log) < MaxLog
    /\ aiLogger.files[interactionId].exists
    /\ aiLogger' = logFeedback(aiLogger, interactionId, positive)
    /\ UNCHANGED <<pipelines, lastInteractionId, now, finished, aiNotice>>
    /\ UNCHANGED <<appVars, loadVars, parseVars, cleanVars>>

NextSink ==
    \/ LogInteraction
    \/ \E interactionId \in Ids, positive \in BOOLEAN :
           LogFeedback(interactionId, positive)
    \/ ClockTick

SpecSink == InitPipeline /\ [][NextSink]_vars

(***************************************************************************)
(* The keyboard: command mode, captures, help and the prompt bindings      *)
(***************************************************************************)
MaxDigits == 1

MaxTerm == 1

MaxKeyLoads == 1

\* String.prototype.startsWith the other way round: text begins whole
IsPrefixOf(text, whole) ==
    Len(text) <= Len(whole) /\ SubSeq(whole, 1, Len(text)) = text

\* the keys the user types: in command mode the characters of one of
\* TypedCommands, into a capture no more than its bound, into a search the
\* characters of SearchChars
Typable(key) ==
    /\ (inCommandMode /\ key \in CharKeys) =>
           \E c \in TypedCommands :
               IsPrefixOf(Append(Tail(commandBuffer), key), c)
    /\ \A n \in DOMAIN keypressListeners :
           /\ (keypressListeners[n].kind = "number" /\ key \in Digits) =>
                  Len(keypressListeners[n].text) < MaxDigits
           /\ (keypressListeners[n].kind = "search" /\ key \in CharKeys) =>
                  /\ key \in SearchChars
                  /\ Len(keypressListeners[n].text) < MaxTerm

\* a key reaches the screen while the input box is not reading; the loads
\* in flight are kept within MaxKeyLoads
Keystroke(key) ==
    /\ exitCode = <<>>
    /\ ~reading
    /\ Typable(key)
    /\ \E live \in BOOLEAN :
       \E rewind \in (IF key = "enter" THEN RewindTargets("chatList")
                      ELSE {"none"}) :
           LET after == EventLoop(Dispatch(
                            [BeginWith(rewind) EXCEPT
                                 !.live = live,
                                 !.stroke.key = IF key \in NamedKeys THEN key
                                                ELSE "char"],
                            key))
           IN  /\ Count(after.loads) <= MaxKeyLoads
               /\ ApplyKeys(after)

\* the keyboard and the start of the client; what is typed into the reading
\* input box and what the chat service answers are the subject of Spec
\* the SIGINT handler of initialize: cleanup, then process.exit(0)
Sigint ==
    /\ exitCode = <<>>
    /\ ApplyKeys(processExit(cleanup(Begin), 0))

NextKeys ==
    \/ exitCode = <<>> /\ HandleReady
    \/ exitCode = <<>> /\ ChatsLoaded
    \/ \E key \in Keys : Keystroke(key)
    \/ Sigint

SpecKeys == Init /\ [][NextKeys]_vars

(***************************************************************************)
(* Properties                                                              *)
(***************************************************************************)
\* what the message surface shows when an error was noticed
ErrorNotices == {"refreshError", "sendError", "aiSendFailed", "uncaught"}

\* C1: a message load that resolves for a chat other than the most recently
\* selected one leaves the client's selected chat, the stored message list and
\* the message surface as they were (last-issued-wins).
C1_StaleLoadNeverOverwrites ==
    [][\A k \in LoadKeys :
          (/\ loads'[k] < loads[k]
           /\ last'.loadEnded = <<"resolved">>
           /\ lastIssued # NULL
           /\ k.chat # lastIssued)
          => (/\ clSelectedChat' = lastIssued
              /\ currentMessages' = currentMessages
              /\ content' = content)]_vars

\* C2: whatever a completion hands to the chat service goes to the chat that
\* was selected when its /p command was issued.
C2_DraftOnlyToIssuingChat ==
    \A i \in 1..Len(last.delivered) :
        last.issuedChat # NULL => last.delivered[i].chat = last.issuedChat

\* C3: with the chat deselected, a message load that resolves or a debounce
\* timer that fires leaves the client's selected chat null, paints no message
\* list and does not replace the stored message list.
C3_NothingChangesAfterDeselect ==
    [][(/\ lastIssued = NULL
        /\ \/ timers' < timers
           \/ last'.loadEnded = <<"resolved">>)
       => (/\ clSelectedChat' = NULL
           /\ content'.kind # "messages"
           /\ currentMessages' = currentMessages)]_vars

\* C4: whatever list the chat service returns, getChatMessages returns a list
\* in ascending timestamp order, made of the most recent of the fetched
\* messages, each once, and no longer than the limit it asked for.
C4_LoadSortedRecentBounded ==
    loaded.done =>
        LET out == loaded.list
            kept == {out[i].id : i \in 1..Len(out)}
        IN  /\ \A i, j \in 1..Len(out) :
                   i < j => out[i].timestamp <= out[j].timestamp
            /\ Len(out) <= FETCH_LIMIT
            /\ Len(out) = Min({Len(fetched), FETCH_LIMIT})
            /\ Cardinality(kept) = Len(out)
            /\ \A i \in 1..Len(out) : \E j \in 1..Len(fetched) : fetched[j] = out[i]
            /\ \A j \in 1..Len(fetched) :
                   fetched[j].id \notin kept =>
                       \A i \in 1..Len(out) :
                           fetched[j].timestamp <= out[i].timestamp

\* C4 witness: an unsorted fetched list longer than the limit has been cut to
\* the limit.
C4_Witness ==
    /\ loaded.done
    /\ Len(fetched) > FETCH_LIMIT
    /\ Len(loaded.list) = FETCH_LIMIT
    /\ \E i, j \in 1..Len(fetched) :
           i < j /\ fetched[i].timestamp > fetched[j].timestamp
    /\ loaded.list[1].timestamp < loaded.list[FETCH_LIMIT].timestamp

\* C5: when a message load is rejected, the stored message list stays as it
\* was and the message surface shows an error notice, whichever path started
\* the load.
C5_LoadFailureNoticed ==
    [][last'.loadEnded = <<"rejected">>
       => (/\ currentMessages' = currentMessages
           /\ content'.kind \in ErrorNotices)]_vars

\* C6: a handler that calls sendMessage while no chat is selected hands nothing
\* to the chat service, starts no send and no refresh timer, and leaves the
\* send error on the message surface (the error was caught, not raised to the
\* process).
C6_SendWithoutChat ==
    [][(clSelectedChat = NULL /\ last'.sendCalls > 0)
       => (/\ last'.delivered = <<>>
           /\ sends' = sends
           /\ timers' = timers
           /\ loads' = loads
           /\ content'.kind \in {"sendError", "aiSendFailed"})]_vars

\* C6 witness: a text was committed with no chat selected; sendMessage was
\* called and the send error is shown.
C6_Witness ==
    /\ clSelectedChat = NULL
    /\ last.commit = << <<" ", "p", " ">> >>
    /\ last.sendCalls = 1
    /\ last.delivered = <<>>
    /\ content.kind = "sendError"

\* C7: no text that trims to empty is ever handed to the chat service.
C7_EmptyNeverDelivered ==
    \A i \in 1..Len(last.delivered) : Trim(last.delivered[i].text) # <<>>

\* C8: a commit of an empty or whitespace-only text emits no 'send-message'
\* event, calls no send, hands nothing to the chat service, starts no
\* completion, and leaves the mode INSERT with the input box reading again.
C8_EmptyCommitSendsNothing ==
    \A i \in 1..Len(last.commit) :
        Trim(last.commit[i]) = <<>>
        => (/\ last.sendEvents = 0
            /\ last.sendCalls = 0
            /\ last.delivered = <<>>
            /\ mode = "INSERT"
            /\ reading
            /\ inputValue = <<>>)

\* C8 witness: a whitespace-only text was committed while a chat is selected.
C8_Witness ==
    /\ last.commit = << <<" ">> >>
    /\ clSelectedChat # NULL
    /\ last.sendEvents = 0
    /\ mode = "INSERT"

IsPlainText(text) == Trim(text) # <<>> /\ ~StartsWith(Trim(text), PromptPrefix)

\* C9: a commit of a non-empty text that is not a /p command emits exactly one
\* 'send-message' event and makes exactly one delivery attempt (one call of
\* sendMessage), however many times INSERT was entered and left before; the
\* text is handed to the chat service at most once: once, trimmed, for the
\* selected chat, and not at all when the attempt fails for want of a
\* selected chat; the buffer is cleared and the mode stays INSERT.
C9_OneEventOneDelivery ==
    \A i \in 1..Len(last.commit) :
        IsPlainText(last.commit[i])
        => (/\ last.sendEvents = 1
            /\ last.sendCalls = 1
            /\ clSelectedChat # NULL =>
                   last.delivered =
                       <<[chat |-> clSelectedChat, text |-> Trim(last.commit[i])]>>
            /\ clSelectedChat = NULL => last.delivered = <<>>
            /\ inputValue = <<>>
            /\ mode = "INSERT"
            /\ reading)

\* C9 witness: a text was committed in an INSERT mode entered from CHAT and
\* was handed, trimmed, to the chat service once, for the selected chat.
C9_Witness ==
    /\ last.commit = << <<" ", "p", " ">> >>
    /\ last.delivered = <<[chat |-> clSelectedChat, text |-> <<"p">>]>>
    /\ clSelectedChat # NULL
    /\ insertFrom = "CHAT"
    /\ submitListeners = 1

\* C10: leaving INSERT returns to the mode in which INSERT was entered and
\* discards the typed text.
C10_CancelRestoresMode ==
    [][(mode = "INSERT" /\ mode' # "INSERT")
       => (mode' = insertFrom /\ inputValue' = <<>>)]_vars

\* C11: parseCommand yields content "hello world" and promptSlug "formal" for
\* the command /p -ct "hello world" -p formal whatever the number of spaces
\* between its tokens outside the quotes.
C11_SpacingInvariant ==
    parsed.done =>
        /\ parsed.options.content = HelloWorld
        /\ parsed.options.promptSlug = <<Formal>>

\* C12: cleanResponse is idempotent: cleaning an already cleaned response
\* returns it unchanged.
C12_CleanIdempotent == cleanings.done => cleanings.twice = cleanings.once

\* whether a slug is among the loaded prompts
IsLoaded(slug) == \E k \in DOMAIN LoadedPrompts : LoadedPrompts[k] = slug

\* pipeline p ran a command with a loaded slug, its completion succeeded and
\* its draft was sent
SentWithTemplate(p) ==
    /\ pipelines[p].stage = "done"
    /\ pipelines[p].sent = "ok"
    /\ HasSlug(pipelines[p].promptSlug)
    /\ IsLoaded(pipelines[p].promptSlug[1])

\* the interaction file written for pipeline p holds the status SENT
StatusSent(p) ==
    /\ pipelines[p].interactionId # <<>>
    /\ aiLogger.files[pipelines[p].interactionId[1]].messageStatus = "sent"

\* C13: when an AI command with an existing prompt slug completes and its
\* draft is sent successfully, the interaction recorded for that invocation
\* eventually has its send status set to SENT.
C13_StatusEventuallySent ==
    \A p \in Pids : SentWithTemplate(p) ~> StatusSent(p)

\* C14: the send status of a recorded interaction is changed at most once,
\* and only by the send attempt of the pipeline that recorded it: never by
\* the send attempt of an earlier or a different pipeline.
C14_StatusOnlyByOwner ==
    \A id \in Ids :
        aiLogger.files[id].exists =>
            /\ Len(aiLogger.files[id].updates) <= 1
            /\ \A k \in DOMAIN aiLogger.files[id].updates :
                   aiLogger.files[id].updates[k] = aiLogger.files[id].owner
            /\ (aiLogger.files[id].updates = <<>>)
                   = (aiLogger.files[id].messageStatus = "null")

\* two pipelines recorded interactions under different ids, and the send
\* attempts of both have settled, the earlier one's with success
C14_Witness ==
    /\ Len(finished) = MaxPipelines
    /\ pipelines[finished[1]].sent = "ok"
    /\ pipelines[1].interactionId # pipelines[2].interactionId
    /\ \A p \in Pids : aiLogger.files[pipelines[p].interactionId[1]].owner = p

\* the pipelines whose completion call succeeded
Completed == {p \in Pids : pipelines[p].stage \in {"sending", "done"}}

\* the lines of the AI log file of a type
LogLines(type) == {k \in DOMAIN aiLogger.log : aiLogger.log[k].type = type}

\* C15: for every pipeline whose completion call succeeds exactly one
\* interaction is recorded, whether the send that follows succeeds or fails:
\* logInteraction ran once for it, and the log file, the request counter and
\* the recent interactions hold one entry for each such pipeline.
C15_OneInteractionPerCompletion ==
    /\ \A p \in Pids : (p \in Completed) = (pipelines[p].interactionId # <<>>)
    /\ Cardinality(LogLines("interaction")) = Cardinality(Completed)
    /\ aiLogger.totalRequests = Cardinality(Completed)
    /\ Len(aiLogger.recent) = Cardinality(Completed)

\* two completions succeeded, one send succeeded and the other failed
C15_Witness ==
    /\ Completed = Pids
    /\ \E p, q \in Pids : pipelines[p].sent = "ok" /\ pipelines[q].sent = "failed"

\* C16: interaction ids are unique: two recorded interactions, also those of
\* overlapping pipelines completing at the same clock instant, have different
\* ids, so each keeps its own interaction file.
C16_InteractionIdsUnique ==
    \A p, q \in Completed :
        p # q =>
            /\ pipelines[p].interactionId # pipelines[q].interactionId
            /\ aiLogger.files[pipelines[p].interactionId[1]].owner = p

\* pipeline p was given, with a chat selected, a command naming a slug that
\* is not loaded
UnknownSlug(p) ==
    /\ pipelines[p].stage # "idle"
    /\ pipelines[p].error # <<NoChatSelected>>
    /\ HasSlug(pipelines[p].promptSlug)
    /\ ~IsLoaded(pipelines[p].promptSlug[1])

\* the completion service was not called, sendMessage was not called and no
\* interaction was logged for pipeline p
NothingRecorded(p) ==
    /\ pipelines[p].sendAttempts = 0
    /\ pipelines[p].sent = "none"
    /\ pipelines[p].interactionId = <<>>
    /\ \A id \in Ids : aiLogger.files[id].owner # p
    /\ Cardinality(LogLines("interaction")) <= Cardinality(Completed)

C18_CompletionFailureEnds ==
    \A p \in Pids :
        /\ pipelines[p].invoked <= 1
        /\ pipelines[p].error = <<CompletionFailed>> =>
               /\ pipelines[p].stage = "error"
               /\ pipelines[p].invoked = 1
               /\ NothingRecorded(p)

\* a completion failed while another pipeline's completion succeeded
C18_Witness ==
    \E p, q \in Pids :
        pipelines[p].error = <<CompletionFailed>> /\ q \in Completed

\* C19: two /p pipelines may overlap, and once both have completed
\* lastInteractionId is the interaction id of the pipeline that completed
\* last; feedback given then is recorded against that id.
C19_LastCompletedWins ==
    Len(finished) = MaxPipelines =>
        LET lastId == pipelines[finished[MaxPipelines]].interactionId
        IN  /\ lastInteractionId = lastId
            /\ aiNotice = "feedbackRecorded" =>
                   /\ aiLogger.log # <<>>
                   /\ aiLogger.log[Len(aiLogger.log)].type = "feedback"
                   /\ aiLogger.log[Len(aiLogger.log)].interactionId = lastId[1]

\* the interactions whose file holds a feedback record
WithFeedback == {id \in Ids : aiLogger.files[id].feedback # <<>>}

\* C20: at most one feedback record exists per interaction: after feedback
\* was given twice for an interaction its file holds the second feedback
\* alone, and the positive and negative counters count the interaction once.
C20_FeedbackCountedOnce ==
    /\ \A id \in Ids : Len(aiLogger.files[id].feedback) <= 1
    /\ \A k \in LogLines("feedback") :
           (\A j \in LogLines("feedback") :
                aiLogger.log[j].interactionId = aiLogger.log[k].interactionId
                    => j <= k)
               => aiLogger.files[aiLogger.log[k].interactionId].feedback
                      = <<aiLogger.log[k].flag>>
    /\ aiLogger.positive + aiLogger.negative = Cardinality(WithFeedback)

\* a numeric capture with callback op is armed
Armed(list, op) ==
    \E n \in DOMAIN list : list[n].kind = "number" /\ list[n].op = op

\* C21: a keystroke that leaves a numeric capture armed changes no Mode,
\* enters no command mode and arms no other handler
C21_CaptureOwnsInput ==
    [][\A op \in {"edit-prompt", "yank-prompt"} :
           (Armed(keypressListeners, op) /\ Armed(keypressListeners', op)) =>
               /\ mode' = mode
               /\ inCommandMode' = inCommandMode
               /\ Len(keypressListeners') = Len(keypressListeners)]_vars

\* the commands whose commit changes the Mode
ModeCommands == {<<"h", "e", "l", "p">>, <<"p">>,
                 <<"p", "r", "o", "m", "p", "t", "s">>}

\* C22: a keystroke made in command mode, other than one ending a command
\* that changes the Mode, leaves Mode, View and the selected chat as they are
C22_CommandModeFrame ==
    [][(inCommandMode /\ toLowerCase(Tail(commandBuffer)) \notin ModeCommands)
           => /\ mode' = mode
              /\ currentView' = currentView
              /\ chSelectedChat' = chSelectedChat]_vars

\* the listeners of one kind that are armed
ArmedOf(kind) ==
    Cardinality({n \in DOMAIN keypressListeners :
                     keypressListeners[n].kind = kind})

\* C23: at most one numeric capture and at most one search capture are
\* armed; a keystroke that fires a capture's callback fires that of the one
\* armed capture (the one armed last) and no other, with the digits typed
\* into it since it was armed
C23_OneCapturePerCategory ==
    [][/\ ArmedOf("number")' <= 1
       /\ ArmedOf("search")' <= 1
       /\ stroke'.events # <<>> =>
              \E n \in DOMAIN keypressListeners :
                  /\ keypressListeners[n].kind = "number"
                  /\ stroke'.events =
                         <<[name |-> keypressListeners[n].op,
                            num |-> <<parseInt(keypressListeners[n].text)
                                          - 1>>]>>]_vars

\* a numeric capture has fired its callback while a search capture is armed
C23_Witness ==
    /\ stroke.key = "enter"
    /\ stroke.events = <<[name |-> "yank-prompt", num |-> <<0>>]>>
    /\ ArmedOf("number") = 0
    /\ ArmedOf("search") = 1

\* C24: once enter or escape was pressed no numeric capture is armed,
\* whatever its digits were
C24_CaptureEndsOnEnterOrEscape ==
    stroke.key \in {"enter", "escape"} => ArmedOf("number") = 0

\* C25: while a prompt is being created or edited the Mode is PROMPT_EDIT,
\* the Mode in which a committed :w saves
C25_SaveWhileEditing ==
    promptHandler.mode \in {"CREATE", "EDIT"} => mode = "PROMPT_EDIT"

\* C26: once :p or :prompts was committed outside PROMPT, Mode and View are
\* PROMPT and no error is shown
C26_PromptsCommand ==
    [][(inCommandMode /\ stroke'.key = "enter" /\ mode = "NORMAL"
        /\ toLowerCase(Tail(commandBuffer)) \in
               {<<"p">>, <<"p", "r", "o", "m", "p", "t", "s">>})
           => /\ mode' = "PROMPT"
              /\ currentView' = "PROMPT"
              /\ content'.kind \notin ErrorNotices]_vars

\* what the message box showed when help was opened
ContentBeforeHelp ==
    LET n == CHOOSE n \in DOMAIN keypressListeners :
                 keypressListeners[n].kind = "help"
    IN  keypressListeners[n].previousContent[1]

\* C27: a keystroke made while Mode is HELP leaves Mode as it was before
\* help and the message box showing what it showed before help, and does
\* nothing else: focus, input box and selected chat stay as they are
C27_HelpRoundTrip ==
    [][(mode = "HELP" /\ ArmedOf("help") = 1 /\ stroke'.key # "none")
           => /\ mode' = previousMode
              /\ content' = ContentBeforeHelp
              /\ focused' = focused
              /\ reading' = reading
              /\ chSelectedChat' = chSelectedChat]_vars

\* C28: a key whose transition the Mode does not allow changes no Mode and
\* raises no error: enter (the select key) pressed outside command mode
\* while Mode is INSERT or PROMPT leaves the Mode as it is, and enter or a
\* character key (the focus-input key among them) pressed while Mode is HELP
\* leaves it HELP or, help being closed by any key, as it was before help
C28_IllegalEdgesAreNoOps ==
    [][(~inCommandMode /\ stroke'.key \in {"enter", "char"})
           => /\ (mode \in {"INSERT", "PROMPT"} /\ stroke'.key = "enter")
                     => mode' = mode
              /\ mode = "HELP" => mode' \in {"HELP", previousMode}
              /\ (mode \in {"INSERT", "PROMPT", "HELP"}
                  /\ content'.kind = "uncaught")
                     => content.kind = "uncaught"]_vars

C30_PopulationSelectsNothing ==
    [][/\ (clientPhase = "loadingChats" /\ clientPhase' = "ready")
              => /\ chSelectedChat' = NULL /\ clSelectedChat' = NULL
                 /\ loads' = loads
                 /\ mode' = mode
       /\ \A k \in LoadKeys :
              loads'[k] > loads[k]
                  => /\ k.chat \in {chSelectedChat', clSelectedChat'}
                     /\ (chSelectedChat = NULL /\ clSelectedChat = NULL)
                            => /\ mode' = "CHAT"
                               /\ chatListSelected + 1 <= Len(chats)
                               /\ chSelectedChat' = chats[chatListSelected + 1]
                               /\ k.chat = chSelectedChat']_vars

\* the chat list has just been filled: chats are there, none is selected,
\* no load is in flight and the application is still in NORMAL mode
C30_Witness ==
    /\ clientPhase = "ready"
    /\ chats # <<>>
    /\ content.kind = "selectChat"
    /\ chSelectedChat = NULL /\ clSelectedChat = NULL
    /\ Count(loads) = 0
    /\ mode = "NORMAL"

\* C31: the animation is stopped before the message surface shows anything
\* else: in every reachable state in which Mode is CHAT or HELP, or the View
\* is not MATRIX, the animation is inactive and its timer is cleared.
C31_AnimationStoppedOffMatrix ==
    (mode \in {"CHAT", "HELP"} \/ currentView # "MATRIX")
        => (~isActive /\ ~interval)

\* C32: after stop() the animation paints nothing until the next start():
\* while the animation is stopped the surface holds no animation frame, and
\* a tick that still ran in that state would leave the surface as it is.
C32_NoPaintAfterStop ==
    ~isActive => /\ content.kind # "matrix"
                 /\ UpdateBackground(Cur).content = content

\* stop() has run on an animation that was painting: the flag and the timer
\* are cleared and a chat's messages are on the surface
C32_Witness ==
    /\ ~isActive /\ ~interval
    /\ content.kind = "messages"

\* C33: start() is idempotent: whatever start(), stop(), 'start-matrix' and
\* 'stop-matrix' have run, at most one tick timer is registered, and a timer
\* is registered exactly when isActive is true.
C33_OneTimerIffActive ==
    /\ intervalTimers <= 1
    /\ (intervalTimers = 1) <=> isActive
    /\ interval <=> isActive

\* the animation has been restarted after a stop (escape out of CHAT): one
\* timer is registered again
C33_Witness ==
    /\ stroke.key = "escape"
    /\ mode = "NORMAL"
    /\ currentView = "CHAT"
    /\ isActive /\ intervalTimers = 1

\* C34: on every exit path (the :q command, the Ctrl-C binding, SIGINT) the
\* teardown of the chat service has completed before the process exits, and
\* the exit code is 0.
C34_TeardownBeforeExit ==
    exitCode # <<>> => (teardown = "completed" /\ exitCode = <<0>>)

\* C35: no keystroke ends the process or raises an exception out of a
\* handler: the process exits only by the :q command, by Ctrl-C or by SIGINT
\* (with code 0), and no step leaves an uncaught exception for the
\* top-level handler to paint.
C35_NoCrashNoEscapingException ==
    [][/\ (exitCode = <<>> /\ exitCode' # <<>>)
              => /\ exitCode' = <<0>>
                 /\ \/ stroke'.key = "C-c"
                    \/ stroke'.key = "none"
                    \/ /\ stroke'.key = "enter" /\ inCommandMode
                       /\ toLowerCase(Tail(commandBuffer)) = <<"q">>
       /\ content'.kind = "uncaught" => content.kind = "uncaught"]_vars

\* C36: committing a command with enter never selects a chat: when enter is
\* pressed while a command is being typed and the chat list has the focus,
\* no chat is selected, no message load is requested and Mode does not
\* become CHAT.
C36_CommitSelectsNothing ==
    [][(inCommandMode /\ focused = "chatList" /\ stroke'.key = "enter")
           => /\ mode' = "CHAT" => mode = "CHAT"
              /\ chSelectedChat' = chSelectedChat
              /\ loads' = loads]_vars

C38_SelectionsAgree == chSelectedChat = clSelectedChat

\* C39: Mode is CHAT only while a chat is selected: in every reachable state
\* Mode = CHAT implies that the chat handler's selected chat is not null (a
\* select commit on an empty chat list leaves Mode unchanged).
C39_ChatModeHasChat == mode = "CHAT" => chSelectedChat # NULL

\* C40: the context assembled for an AI draft holds only messages of the
\* chat the draft is addressed to: at most the last 10 stored messages, none
\* of them starting with '/' or ':', and none left over from a chat that was
\* selected before.
C40_ContextOfDraftChat ==
    /\ Len(last.context) <= CONTEXT_LIMIT
    /\ \A i \in 1..Len(last.context) :
           /\ ~StartsWith(last.context[i].body, <<"/">>)
           /\ ~StartsWith(last.context[i].body, <<":">>)
           /\ last.context[i].chat = last.draftChat

====
